---- MODULE Spec2Model ----
(***************************************************************************)
(* A model of the TDataFrame deferred computation graph                    *)
(* (tree/treeplayer/inc/ROOT/TDataFrame.hxx): the chain-building calls,    *)
(* the lazy result proxy, the recursive CheckFilters / GetValue chains and *)
(* the event loop that runs every booked action once per entry.            *)
(*                                                                         *)
(* Conventions.  Node 0 is the TDataFrameImpl (the root of every chain);   *)
(* nodes[i], i >= 1, is the i-th TDataFrameFilter or TDataFrameBranch in   *)
(* booking order.  Slots and entries are numbered from 0 as in the code;   *)
(* a std::vector indexed by slot is a sequence read at slot + 1.           *)
(***************************************************************************)
EXTENDS Integers, Sequences, FiniteSets, TLC

\* ------------------------------------------------------------------ bounds
MaxRows == 2
MaxSlots == 2
MaxBooked == 3

\* ------------------------------------------------------------- input data
\* The values of the physical column "x" of the input tree.  The general
\* specification reads a prefix of the table of scenario S6; the scenario
\* specification reads the tables of scenarios S1 and S5.
Table == <<3, 1, 4, 1, 5, 9, 2, 6>>

TablePrefix(n) == [i \in 1..n |-> Table[((i - 1) % Len(Table)) + 1]]

Iota(n) == [i \in 1..n |-> i]

\* The branches of the tree: element tells a TBranchElement from a branch
\* of a fundamental type, type is the type name of the former and the type
\* code that ends the title of the latter. The event loop reads x only.
TreeBranches ==
  ("x" :> [element |-> FALSE, type |-> "I"]) @@
  ("b" :> [element |-> FALSE, type |-> "B"]) @@
  ("d" :> [element |-> FALSE, type |-> "D"]) @@
  ("f" :> [element |-> FALSE, type |-> "F"]) @@
  ("vd" :> [element |-> TRUE, type |-> "vector<double>"]) @@
  ("vf" :> [element |-> TRUE, type |-> "vector<float>"]) @@
  ("vi" :> [element |-> TRUE, type |-> "vector<int>"])

PhysicalBranches == DOMAIN TreeBranches

\* A double is written in halves: the int v read from the tree converts to
\* 2 * v, and the smallest positive double is the one half.
ToDouble(v) == 2 * v

\* std::numeric_limits<double>::max(), the initial value of a Min result
DoubleMax == 1000

\* std::numeric_limits<double>::min(), the initial value of a Max result:
\* the smallest positive double
DoubleMin == 1

NullPtr == [id |-> <<>>, val |-> 0]

VARIABLES
  rows,                \* the entries of the tree: rows[e + 1] is x at entry e
  fDefaultBranches,    \* TDataFrameImpl::fDefaultBranches
  fNSlots,             \* TDataFrameImpl::fNSlots
  nodes,               \* the TDataFrameFilter / TDataFrameBranch objects
  fBookedFilters,      \* TDataFrameImpl::fBookedFilters (node ids)
  fBookedBranches,     \* TDataFrameImpl::fBookedBranches (name -> node id)
  fBookedActions,      \* TDataFrameImpl::fBookedActions
  fResProxyReadiness,  \* TDataFrameImpl::fResProxyReadiness (proxy ids)
  fHasRunAtLeastOnce,  \* TDataFrameImpl::fHasRunAtLeastOnce
  fReadiness,          \* TActionResultProxy::fReadiness, by proxy id
  fObjPtr,             \* TActionResultProxy::fObjPtr (the pointee), by proxy id
  pc,                  \* the user thread: "idle", or inside Run: "loop", "merged";
                       \* "gone" once the TDataFrameImpl is destroyed
  nextEntry,           \* the next entry the tree reader hands out
  getting,             \* the proxy whose Get() is waiting for Run(), or 0;
                       \* once the engine is gone, the proxy of the last Get()
  thrown,              \* the exception the last Get() or Report() call, or
                       \* the last run, ended with; "" if none
  reportOut,           \* what the last Report() printed, <<>> if none yet
  calls,               \* history: user callable invocations, last iteration
  order,               \* history: the user callables in the order they were
                       \* invoked, last iteration
  asked,               \* history: CheckFilters calls on filters, last iteration
  served,              \* history: objects handed out for derived columns, last iteration
  evals,               \* history: predicate calls per (filter, slot), current run
  demanded,            \* history: has any result proxy been dereferenced
  allocs,              \* history: make_shared calls per (branch, slot)
  visited,             \* history: the (slot, entry) of the last iteration
  sourceRead,          \* history: has the physical column ever been read
  nRuns,               \* history: the number of Run() calls
  proxyInfo,           \* history: the action each proxy was made for
  retired,             \* history: the per-slot partials of the actions the
                       \* current run destroyed
  iterated,            \* history: the last begin() or end() call on a proxy
  writer,              \* the RNTupleWriter: fNEntries, fLastCommitted, ...
  fSink,               \* the calls the writer's page sink and fields received
  reader,              \* the RNTupleReader: fModel, fDisplayReader, its source
  output,              \* what the last RNTupleReader::Show printed
  api                  \* history: the calls user code made on the RNTuple
                       \* writer or reader

vars == <<rows, fDefaultBranches, fNSlots, nodes, fBookedFilters, fBookedBranches, fBookedActions,
          fResProxyReadiness, fHasRunAtLeastOnce, fReadiness, fObjPtr, pc,
          nextEntry, getting, thrown, reportOut, calls, order, asked, served, evals,
          demanded, allocs, visited, sourceRead, nRuns, proxyInfo, retired,
          iterated, writer, fSink, reader, output, api>>

\* the state of the RNTuple writer and reader
ntuple == <<writer, fSink, reader, output, api>>

\* the state of the TDataFrame and its nodes, actions and proxies
frame == <<rows, fDefaultBranches, fNSlots, nodes, fBookedFilters, fBookedBranches,
           fBookedActions, fResProxyReadiness, fHasRunAtLeastOnce, fReadiness,
           fObjPtr, pc, nextEntry, getting, thrown, reportOut, calls, order, asked,
           served, evals, demanded, allocs, visited, sourceRead, nRuns, proxyInfo,
           retired, iterated>>

\* no RNTuple writer or reader has been constructed
NoWriter == [state |-> "none", fModel |-> <<>>, fClusterSizeEntries |-> 0,
             fLastCommitted |-> 0, fNEntries |-> 0]

NoSource == [attached |-> FALSE, generated |-> 0, connected |-> <<>>,
             loaded |-> <<>>, cloned |-> 0]

NoReader == [state |-> "none", fModel |-> <<>>, fSource |-> NoSource,
             fDisplayReader |-> <<>>]

NoOutput == [json |-> "", index |-> -1, model |-> <<>>]

NoNTuple ==
  /\ writer = NoWriter
  /\ fSink = <<>>
  /\ reader = NoReader
  /\ output = NoOutput
  /\ api = <<>>

Slots == 0..(fNSlots - 1)

NodeIds == 1..Len(nodes)

Range(s) == {s[i] : i \in DOMAIN s}

Min2(a, b) == IF a < b THEN a ELSE b

Max2(a, b) == IF a < b THEN b ELSE a

RECURSIVE SumSeq(_)
SumSeq(s) == IF s = <<>> THEN 0 ELSE Head(s) + SumSeq(Tail(s))

\* one more occurrence of key k in the history counter f
Bump(f, k) == IF k \in DOMAIN f THEN [f EXCEPT ![k] = @ + 1] ELSE f @@ (k :> 1)

Times(f, k) == IF k \in DOMAIN f THEN f[k] ELSE 0

\* ---------------------------------------------------------- user callables
\* The predicates and expressions the chain-building calls are given:
\* "gt2" is x > 2 (S1), "even" is x % 2 == 0 and "big" is x > 5 (S5),
\* "dbl" is 2 * x (S3).
Pred(f, v) ==
  CASE f = "even" -> v % 2 = 0
    [] f = "gt2"  -> v > 2
    [] f = "big"  -> v > 5
    [] f = "boom" -> TRUE

\* the user predicate f throws when it is called with v
Throws(f, v) == f = "boom" /\ v < 3

Expr(f, v) ==
  CASE f = "dbl" -> 2 * v

\* the return type of the expressions: "dbl" is int(int), "half" is
\* double(int), "odd" is bool(int), "hits" is std::vector<int>(int)
RetType(f) ==
  CASE f = "dbl"  -> "int"
    [] f = "half" -> "double"
    [] f = "odd"  -> "bool"
    [] f = "hits" -> "vector<int>"

\* ------------------------------------------------- the per-entry call chain
\* The call chain below mutates the per-slot members of the nodes; m is the
\* memory it threads through: m.n the nodes, m.acts the booked actions, m.res the result objects,
\* m.exc whether an exception of a user callable is unwinding the chain, the
\* other fields the histories.
Mem == [n |-> nodes, acts |-> fBookedActions, res |-> fObjPtr, calls |-> calls,
        order |-> order,
        asked |-> asked, served |-> served, evals |-> evals, allocs |-> allocs,
        sourceRead |-> sourceRead, exc |-> FALSE]

\* BuildReaderValues: a null reader value stands for a temporary branch
IsTmpBranch(tmpbl, branch) == branch \in Range(tmpbl)

\* the element of a set of one element; in Only({e : x \in {call}}) the
\* value returned by the call is computed once and named x in e
Only(S) == CHOOSE y \in S : TRUE

RECURSIVE CheckFilters(_, _, _, _)
RECURSIVE GetValue(_, _, _, _)
RECURSIVE GetBranchValue(_, _, _, _, _)

\* GetBranchValue: the value of column `branch` for a node whose temporary
\* branches are tmpbl; obj is the object the returned reference points to.
GetBranchValue(m, tmpbl, branch, slot, entry) ==
  IF IsTmpBranch(tmpbl, branch)
  THEN \* temporary branch: TDataFrameImpl::GetTmpBranchValue
       LET b == fBookedBranches[branch]
           g == GetValue(m, b, slot, entry)
       IN [m |-> [g.m EXCEPT !.served = Bump(@, <<b, slot, entry, g.obj.id>>)],
           v |-> g.obj.val, obj |-> g.obj]
  ELSE \* real branch: the slot's TTreeReaderValue, positioned at entry
       [m |-> [m EXCEPT !.sourceRead = TRUE],
        v |-> rows[entry + 1], obj |-> NullPtr]

\* TDataFrameBranch::GetValueHelper: make_shared<Ret_t>(fExpression(inputs...))
GetValueHelper(m, b, slot, entry) ==
  LET br == m.n[b]
      in == GetBranchValue(m, br.fTmpBranches, br.fBranches[1], slot, entry)
      k  == Times(in.m.allocs, <<b, slot>>) + 1
  IN [m |-> [in.m EXCEPT !.calls = Bump(@, <<"branch", b, slot, entry>>),
                         !.order = Append(@, <<"branch", b, slot, entry>>),
                         !.allocs = Bump(@, <<b, slot>>)],
      obj |-> [id |-> <<b, slot, k>>, val |-> Expr(br.fExpression, in.v)]]

\* a GetValue that forgets the entry it last evaluated
GetValue_NoCache(m, b, slot, entry) ==
  LET h == GetValueHelper(m, b, slot, entry)
  IN [m |-> [h.m EXCEPT !.n[b].fLastResultPtr[slot + 1] = h.obj,
                        !.n[b].fLastCheckedEntry[slot + 1] = entry],
      obj |-> h.obj]

\* TDataFrameBranch::GetValue
GetValue(m, b, slot, entry) ==
  IF entry # m.n[b].fLastCheckedEntry[slot + 1]
  THEN LET h == GetValueHelper(m, b, slot, entry)
       IN [m |-> [h.m EXCEPT !.n[b].fLastResultPtr[slot + 1] = h.obj,
                             !.n[b].fLastCheckedEntry[slot + 1] = entry],
           obj |-> h.obj]
  ELSE [m |-> m, obj |-> m.n[b].fLastResultPtr[slot + 1]]

\* TDataFrameFilter::CheckFilterHelper: fFilter(inputs...)
CheckFilterHelper(m, id, slot, entry) ==
  LET f  == m.n[id]
      in == GetBranchValue(m, f.fTmpBranches, f.fBranches[1], slot, entry)
  IN [m |-> [in.m EXCEPT !.calls = Bump(@, <<"filter", id, slot, entry>>),
                         !.order = Append(@, <<"filter", id, slot, entry>>),
                         !.evals = Bump(@, <<id, slot>>),
                         !.exc = Throws(f.fFilter, in.v)],
      r |-> Pred(f.fFilter, in.v)]

\* a bookkeeping that keeps the counters of every slot in the first element
Evaluated_FirstSlot(h, id, slot, entry) ==
  [m |-> [h.m EXCEPT !.n[id].fAccepted[1] = IF h.r THEN @ + 1 ELSE @,
                     !.n[id].fRejected[1] = IF h.r THEN @ ELSE @ + 1,
                     !.n[id].fLastResult[slot + 1] = h.r,
                     !.n[id].fLastCheckedEntry[slot + 1] = entry],
   r |-> h.r]

\* the bookkeeping of CheckFilters after the filter was evaluated to h.r
Evaluated(h, id, slot, entry) ==
  [m |-> [h.m EXCEPT !.n[id].fAccepted[slot + 1] = IF h.r THEN @ + 1 ELSE @,
                     !.n[id].fRejected[slot + 1] = IF h.r THEN @ ELSE @ + 1,
                     !.n[id].fLastResult[slot + 1] = h.r,
                     !.n[id].fLastCheckedEntry[slot + 1] = entry],
   r |-> h.r]

\* a CheckFilters that does not look at fLastCheckedEntry
FilterCheckFilters_NoMemo(m, id, slot, entry) ==
  LET up == CheckFilters(m, m.n[id].fPrevData, slot, entry)
  IN IF ~up.r
     THEN [m |-> [up.m EXCEPT !.n[id].fLastResult[slot + 1] = FALSE,
                              !.n[id].fLastCheckedEntry[slot + 1] = entry],
           r |-> FALSE]
     ELSE Evaluated(CheckFilterHelper(up.m, id, slot, entry), id, slot, entry)

\* a CheckFilters that evaluates its filter before it asks upstream
FilterCheckFilters_OwnFirst(m, id, slot, entry) ==
  LET f == m.n[id]
  IN IF entry # f.fLastCheckedEntry[slot + 1]
     THEN LET h  == CheckFilterHelper(m, id, slot, entry)
              up == CheckFilters(h.m, f.fPrevData, slot, entry)
          IN IF ~up.r
             THEN [m |-> [up.m EXCEPT !.n[id].fLastResult[slot + 1] = FALSE,
                                      !.n[id].fLastCheckedEntry[slot + 1] = entry],
                   r |-> FALSE]
             ELSE Evaluated([m |-> up.m, r |-> h.r], id, slot, entry)
     ELSE [m |-> m, r |-> f.fLastResult[slot + 1]]

\* a CheckFilters that counts the entries rejected upstream as rejected
FilterCheckFilters_CountsAll(m, id, slot, entry) ==
  LET f == m.n[id]
  IN IF entry # f.fLastCheckedEntry[slot + 1]
     THEN LET up == CheckFilters(m, f.fPrevData, slot, entry)
          IN IF ~up.r
             THEN [m |-> [up.m EXCEPT !.n[id].fRejected[slot + 1] = @ + 1,
                                      !.n[id].fLastResult[slot + 1] = FALSE,
                                      !.n[id].fLastCheckedEntry[slot + 1] = entry],
                   r |-> FALSE]
             ELSE Evaluated(CheckFilterHelper(up.m, id, slot, entry), id, slot, entry)
     ELSE [m |-> m, r |-> f.fLastResult[slot + 1]]

\* TDataFrameFilter::CheckFilters
FilterCheckFilters(m, id, slot, entry) ==
  LET f == m.n[id]
  IN IF entry # f.fLastCheckedEntry[slot + 1]
     THEN Only({
             IF up.m.exc
             THEN \* a filter upstream threw: no statement of this call runs
                  up
             ELSE IF ~up.r
             THEN \* a filter upstream returned false, cache the result
                  [m |-> [up.m EXCEPT !.n[id].fLastResult[slot + 1] = FALSE,
                                      !.n[id].fLastCheckedEntry[slot + 1] = entry],
                   r |-> FALSE]
             ELSE \* evaluate this filter, cache the result
                  Only({
                     IF h.m.exc
                     THEN \* fFilter threw: nothing is counted or cached
                          h
                     ELSE Evaluated(h, id, slot, entry)
                     : h \in {CheckFilterHelper(up.m, id, slot, entry)}})
             : up \in {CheckFilters(m, f.fPrevData, slot, entry)}})
     ELSE [m |-> m, r |-> f.fLastResult[slot + 1]]

\* PrevData::CheckFilters, dispatched on the class of the previous node:
\* TDataFrameImpl (the end of the chain), TDataFrameBranch (a dummy call that
\* forwards to its own previous node) or TDataFrameFilter.
CheckFilters(m, id, slot, entry) ==
  IF id = 0 THEN [m |-> m, r |-> TRUE]
  ELSE IF m.n[id].kind = "branch"
  THEN CheckFilters(m, m.n[id].fPrevData, slot, entry)
  ELSE FilterCheckFilters([m EXCEPT !.asked = Bump(@, <<id, slot, entry>>)],
                          id, slot, entry)

\* ------------------------------------------------------------- operations
\* The per-slot partial results of an action and their merge (the Operations
\* classes): Count keeps a counter per slot and sums them, Min (Max) keeps a
\* running minimum (maximum) per slot and takes the minimum (maximum) of
\* them, Mean keeps a sum and a count per slot and divides the sum of the
\* sums by the sum of the counts, Take keeps a collection per slot and
\* concatenates them in the order of the slots, Reduce keeps a value per slot
\* seeded with the initial value and folds them with the user's function,
\* Foreach keeps nothing.
\* The quotient n / d of two doubles is written as the fraction [num, den].
OpInit(kind) ==
  CASE kind = "count" -> 0
    [] kind = "min"   -> DoubleMax
    [] kind = "max"   -> DoubleMin
    [] kind = "mean"  -> [num |-> 0, den |-> 1]
    [] kind = "take"  -> <<>>
    [] kind = "foreach" -> 0

\* the user's reduce functions
ReduceFun(f, a, b) ==
  CASE f = "sum" -> a + b
    [] f = "max" -> Max2(a, b)

\* the partial result every slot starts with
OpSeed(kind, init) ==
  CASE kind = "mean"   -> [sum |-> 0, count |-> 0]
    [] kind = "reduce" -> init
    [] kind = "fill"   -> <<>>
    [] kind = "fillTO" -> init
    [] OTHER           -> OpInit(kind)

OpExec(kind, partial, v) ==
  CASE kind = "count" -> partial + 1
    [] kind = "min"   -> Min2(ToDouble(v), partial)
    [] kind = "max"   -> Max2(ToDouble(v), partial)
    [] kind = "mean"  -> [sum |-> partial.sum + ToDouble(v), count |-> partial.count + 1]
    [] kind = "take"  -> Append(partial, v)
    [] kind = "foreach" -> partial

\* the callable of action a, applied to the partial result of a slot
ActionExec(a, partial, v) ==
  IF a.kind = "reduce" THEN ReduceFun(a.fun, partial, ToDouble(v))
  ELSE OpExec(a.kind, partial, v)

RECURSIVE MinSeq(_)
MinSeq(s) == IF s = <<>> THEN DoubleMax ELSE Min2(Head(s), MinSeq(Tail(s)))

RECURSIVE MaxSeq(_)
MaxSeq(s) == IF s = <<>> THEN DoubleMin ELSE Max2(Head(s), MaxSeq(Tail(s)))

RECURSIVE Concat(_)
Concat(s) == IF s = <<>> THEN <<>> ELSE Head(s) \o Concat(Tail(s))

\* the slot partials folded with f, from the first to the last
RECURSIVE FoldSeq(_, _)
FoldSeq(f, s) ==
  IF Len(s) = 1 THEN s[1]
  ELSE ReduceFun(f, FoldSeq(f, SubSeq(s, 1, Len(s) - 1)), s[Len(s)])

OpMerge(kind, partials) ==
  CASE kind = "count" -> SumSeq(partials)
    [] kind = "min"   -> MinSeq(partials)
    [] kind = "max"   -> MaxSeq(partials)
    [] kind = "mean"  -> [num |-> SumSeq([i \in DOMAIN partials |-> partials[i].sum]),
                          den |-> SumSeq([i \in DOMAIN partials |-> partials[i].count])]
    [] kind = "take"  -> Concat(partials)
    [] kind = "foreach" -> 0

\* the merge of the per-slot partial results of action a
ActionMerge(a) ==
  IF a.kind = "reduce" THEN FoldSeq(a.fun, a.partial)
  ELSE OpMerge(a.kind, a.partial)

\* the history an action keeps of the entries it was executed on (Take and
\* Foreach only)
Took(a, took, entry) ==
  IF a.kind \in {"take", "foreach"} THEN Append(took, entry) ELSE took

\* an action that is called with the number of the entry instead of the
\* value of its column
ActionInput_Entry(m, a, slot, entry) == [m |-> m, v |-> entry]

\* the column values an action is called with (none for Count)
ActionInput(m, a, slot, entry) ==
  IF a.fBranches = <<>>
  THEN [m |-> m, v |-> 0]
  ELSE GetBranchValue(m, a.fTmpBranches, a.fBranches[1], slot, entry)

\* an action whose callable updates the result object instead of the
\* partial result of its slot
ExecuteAction_OnResult(m, i, slot, entry) ==
  LET a  == m.acts[i]
      in == ActionInput(m, a, slot, entry)
  IN [in.m EXCEPT !.calls = Bump(@, <<"action", a.res, slot, entry>>),
                  !.order = Append(@, <<"action", a.res, slot, entry>>),
                  !.res[a.res] = OpExec(a.kind, @, in.v)]

\* an action whose callable starts from the seed at every call instead of
\* accumulating into the partial result of its slot
ExecuteAction_Overwrite(m, i, slot, entry) ==
  LET a  == m.acts[i]
      in == ActionInput(m, a, slot, entry)
  IN [in.m EXCEPT !.calls = Bump(@, <<"action", a.res, slot, entry>>),
                  !.order = Append(@, <<"action", a.res, slot, entry>>),
                  !.acts[i].partial[slot + 1] =
                       ActionExec(a, OpSeed(a.kind, a.init), in.v),
                  !.acts[i].took[slot + 1] = Took(a, @, entry)]

\* an action whose callable is always given slot 0
ExecuteAction_OneSlot(m, i, slot, entry) ==
  LET a  == m.acts[i]
      in == ActionInput(m, a, slot, entry)
  IN [in.m EXCEPT !.calls = Bump(@, <<"action", a.res, slot, entry>>),
                  !.order = Append(@, <<"action", a.res, slot, entry>>),
                  !.acts[i].partial[1] = ActionExec(a, @, in.v),
                  !.acts[i].took[slot + 1] = Took(a, @, entry)]

\* TDataFrameAction::ExecuteAction: fAction(slot, column values...)
ExecuteAction(m, i, slot, entry) ==
  LET a  == m.acts[i]
      in == ActionInput(m, a, slot, entry)
  IN [in.m EXCEPT !.calls = Bump(@, <<"action", a.res, slot, entry>>),
                  !.order = Append(@, <<"action", a.res, slot, entry>>),
                  !.acts[i].partial[slot + 1] = ActionExec(a, @, in.v),
                  !.acts[i].took[slot + 1] = Took(a, @, entry)]

\* an action that runs on every entry, whatever the filters say
ActionRun_Unfiltered(m, i, slot, entry) ==
  ExecuteAction(CheckFilters(m, m.acts[i].fPrevData, slot, entry).m, i, slot, entry)

\* TDataFrameAction::Run
ActionRun(m, i, slot, entry) ==
  Only({ \* check if entry passes all filters
     IF c.m.exc THEN c.m
     ELSE IF c.r THEN ExecuteAction(c.m, i, slot, entry) ELSE c.m
     : c \in {CheckFilters(m, m.acts[i].fPrevData, slot, entry)}})

\* for (auto &actionPtr : fBookedActions) actionPtr->Run(slot, entry)
RECURSIVE RunActions(_, _, _, _)
RunActions(m, i, slot, entry) ==
  IF i > Len(m.acts) \/ m.exc THEN m
  ELSE Only({RunActions(n, i + 1, slot, entry)
             : n \in {ActionRun(m, i, slot, entry)}})

\* ----------------------------------------------------- per-slot allocation
\* std::vector::resize(n, fill): the elements already there are kept
Resize(v, n, fill) == [i \in 1..n |-> IF i <= Len(v) THEN v[i] ELSE fill]

\* TDataFrameBranch::CreateSlots
BranchCreateSlots(br, nSlots) ==
  [br EXCEPT !.fLastCheckedEntry = Resize(@, nSlots, -1),
             !.fLastResultPtr = Resize(@, nSlots, NullPtr)]

\* TDataFrameFilterBase::CreateSlots: the per-slot state of a filter is
\* allocated anew before the loop
FilterCreateSlots(f, nSlots) ==
  [f EXCEPT !.fLastCheckedEntry = [s \in 1..nSlots |-> -1],
            !.fLastResult = [s \in 1..nSlots |-> TRUE],
            !.fAccepted = [s \in 1..nSlots |-> 0],
            !.fRejected = [s \in 1..nSlots |-> 0]]

\* TDataFrameImpl::CreateSlots
CreateSlots(nSlots) ==
  [i \in NodeIds |-> IF nodes[i].kind = "filter"
                     THEN FilterCreateSlots(nodes[i], nSlots)
                     ELSE BranchCreateSlots(nodes[i], nSlots)]

\* TDataFrameImpl::Run, up to the loop on the entries
RunStart ==
  /\ pc' = "loop"
  /\ nodes' = CreateSlots(fNSlots)
  /\ nextEntry' = 0
  /\ nRuns' = nRuns + 1
  /\ calls' = <<>>
  /\ order' = <<>>
  /\ asked' = <<>>
  /\ served' = <<>>
  /\ evals' = <<>>
  /\ visited' = {}

\* ---------------------------------------------------------- chain building
\* a GetTmpBranches that returns the temporary branches of the whole graph
GetTmpBranches_Graph(p) ==
  LET ids == {i \in NodeIds : nodes[i].kind = "branch"}
  IN [k \in 1..Cardinality(ids) |->
        nodes[CHOOSE i \in ids : Cardinality({j \in ids : j <= i}) = k].fName]

\* GetTmpBranches of node p (TDataFrameImpl::GetTmpBranches returns {})
GetTmpBranches(p) == IF p = 0 THEN <<>> ELSE nodes[p].fTmpBranches

\* the default branches the run specifications construct the TDataFrame with
DefaultBranches == <<"x">>

\* GetBranchNames: the number of names of bl that are not empty
ProvidedBranches(bl) == Cardinality({i \in DOMAIN bl : bl[i] # ""})

\* A chain-building call that resolves names or guesses a type ends with a
\* value or with an exception: err is the exception ("" if none).

\* a GetDefaultBranchNames that hands out the default branches there are
GetDefaultBranchNames_Short(nExpectedBranches) ==
  [err |-> "",
   bl |-> SubSeq(fDefaultBranches, 1, Min2(nExpectedBranches, Len(fDefaultBranches)))]

\* GetDefaultBranchNames: the first nExpectedBranches default branches, or
\* the runtime_error "Trying to deduce the branches from the default list"
GetDefaultBranchNames(nExpectedBranches) ==
  IF nExpectedBranches > Len(fDefaultBranches)
  THEN [err |-> "InsufficientDefaults", bl |-> <<>>]
  ELSE [err |-> "", bl |-> SubSeq(fDefaultBranches, 1, nExpectedBranches)]

\* a GetBranchNames that keeps the names it is given whenever one of them is
\* not empty
GetBranchNames_KeepGiven(neededBranches, bl) ==
  IF ProvidedBranches(bl) > 0 THEN [err |-> "", bl |-> bl]
  ELSE GetDefaultBranchNames(neededBranches)

\* GetBranchNames: the names given if as many of them are not empty as
\* branches are needed, the default branches otherwise
GetBranchNames(neededBranches, bl) ==
  IF neededBranches = ProvidedBranches(bl) THEN [err |-> "", bl |-> bl]
  ELSE GetDefaultBranchNames(neededBranches)

\* PickBranchNames: the same policy, for the calls that are given a callable
\* of nArgs arguments
PickBranchNames(nArgs, bl, defBl) ==
  IF ProvidedBranches(bl) = nArgs THEN [err |-> "", bl |-> bl]
  ELSE IF nArgs > Len(defBl) THEN [err |-> "InsufficientDefaults", bl |-> <<>>]
  ELSE [err |-> "", bl |-> SubSeq(defBl, 1, nArgs)]

\* the columns a node booked on node p can read: the branches of the tree
\* and the temporary branches defined upstream of p
KnownBranches(p) == PhysicalBranches \cup Range(GetTmpBranches(p))

\* CheckTmpBranch: an exception is thrown if the name of the new branch is
\* already in use for another branch in the TTree
CheckTmpBranch(name) ==
  IF name \in PhysicalBranches THEN "DuplicateDerivedName" ELSE ""

\* TDataFrameImpl::Book of a temporary branch: the name must not be the name
\* of a temporary branch booked before
BookBranch(name) ==
  IF name \in DOMAIN fBookedBranches THEN "DuplicateDerivedName" ELSE ""

\* user code that names a column the node it books on node p can read
CanRead(p, bl) ==
  LET actualBl == PickBranchNames(1, bl, fDefaultBranches)
  IN actualBl.err = "" /\ actualBl.bl[1] \in KnownBranches(p)

\* user code that gives a new temporary branch a name not yet in use
NewName(name) == CheckTmpBranch(name) = "" /\ BookBranch(name) = ""

UnchangedRun == UNCHANGED <<pc, nextEntry, getting, reportOut, calls, order,
                            asked, served, evals, demanded, allocs, visited,
                            sourceRead, nRuns, retired>>

\* the chain-building call ends with the exception e: nothing is booked
Throw(e) ==
  /\ thrown' = e
  /\ UNCHANGED <<nodes, fBookedFilters, fBookedBranches, fBookedActions,
                 fResProxyReadiness, fReadiness, fObjPtr, proxyInfo>>

\* TDataFrameInterface::GetDataFrameChecked: the exception it throws when
\* the TDataFrameImpl is not reachable, "" if it returns the TDataFrameImpl
GetDataFrameChecked == IF pc = "gone" THEN "EngineGone" ELSE ""

\* the number of filters, temporary branches and actions booked so far
Booked == Len(nodes) + Len(fReadiness)

\* TDataFrameInterface::Filter on node p
Filter(p, f, bl, name) ==
  /\ pc \in {"idle", "gone"}
  /\ Booked < MaxBooked
  /\ IF GetDataFrameChecked # "" THEN Throw(GetDataFrameChecked)
     ELSE LET actualBl == PickBranchNames(1, bl, fDefaultBranches)
         FilterPtr == [kind |-> "filter", fPrevData |-> p, fName |-> name,
                       fFilter |-> f, fBranches |-> actualBl.bl,
                       fTmpBranches |-> GetTmpBranches(p),
                       fLastCheckedEntry |-> <<-1>>, fLastResult |-> <<TRUE>>,
                       fAccepted |-> <<0>>, fRejected |-> <<0>>]
     IN IF actualBl.err # "" THEN Throw(actualBl.err)
        ELSE /\ nodes' = Append(nodes, FilterPtr)
             /\ fBookedFilters' = Append(fBookedFilters, Len(nodes) + 1)
             /\ thrown' = ""
             /\ UNCHANGED <<fBookedBranches, fBookedActions, fResProxyReadiness,
                            fReadiness, fObjPtr, proxyInfo>>
  /\ UNCHANGED <<ntuple, iterated, rows, fDefaultBranches, fNSlots, fHasRunAtLeastOnce>>
  /\ UnchangedRun

\* an AddBranch whose Book lets a second temporary branch take a name
AddBranch_Rebook(p, name, expression, bl) ==
  /\ pc = "idle"
  /\ Booked < MaxBooked
  /\ LET actualBl == PickBranchNames(1, bl, fDefaultBranches)
         BranchPtr == [kind |-> "branch", fPrevData |-> p, fName |-> name,
                       fExpression |-> expression, fBranches |-> actualBl.bl,
                       fTmpBranches |-> Append(GetTmpBranches(p), name),
                       fLastCheckedEntry |-> <<-1>>, fLastResultPtr |-> <<>>]
     IN IF CheckTmpBranch(name) # "" THEN Throw(CheckTmpBranch(name))
        ELSE IF actualBl.err # "" THEN Throw(actualBl.err)
        ELSE /\ nodes' = Append(nodes, BranchPtr)
             /\ fBookedBranches' =
                   (name :> (Len(nodes) + 1)) @@
                   [n \in DOMAIN fBookedBranches \ {name} |-> fBookedBranches[n]]
             /\ thrown' = ""
             /\ UNCHANGED <<fBookedFilters, fBookedActions, fResProxyReadiness,
                            fReadiness, fObjPtr, proxyInfo>>
  /\ UNCHANGED <<ntuple, iterated, rows, fDefaultBranches, fNSlots, fHasRunAtLeastOnce>>
  /\ UnchangedRun

\* TDataFrameInterface::AddBranch on node p
AddBranch(p, name, expression, bl) ==
  /\ pc \in {"idle", "gone"}
  /\ Booked < MaxBooked
  /\ IF GetDataFrameChecked # "" THEN Throw(GetDataFrameChecked)
     ELSE LET actualBl == PickBranchNames(1, bl, fDefaultBranches)
         BranchPtr == [kind |-> "branch", fPrevData |-> p, fName |-> name,
                       fExpression |-> expression, fBranches |-> actualBl.bl,
                       fTmpBranches |-> Append(GetTmpBranches(p), name),
                       fLastCheckedEntry |-> <<-1>>, fLastResultPtr |-> <<>>]
     IN IF CheckTmpBranch(name) # "" THEN Throw(CheckTmpBranch(name))
        ELSE IF actualBl.err # "" THEN Throw(actualBl.err)
        ELSE IF BookBranch(name) # "" THEN Throw(BookBranch(name))
        ELSE /\ nodes' = Append(nodes, BranchPtr)
             /\ fBookedBranches' = (name :> (Len(nodes) + 1)) @@ fBookedBranches
             /\ thrown' = ""
             /\ UNCHANGED <<fBookedFilters, fBookedActions, fResProxyReadiness,
                            fReadiness, fObjPtr, proxyInfo>>
  /\ UNCHANGED <<ntuple, iterated, rows, fDefaultBranches, fNSlots, fHasRunAtLeastOnce>>
  /\ UnchangedRun

\* a proxy that is born ready
NewReadiness_Set == TRUE

\* TDataFrameImpl::MakeActionResultProxy: the readiness a new proxy starts with
NewReadiness == FALSE

\* the TDataFrameAction of the given kind on node p, for the result of
\* proxy h (0 if it has none); fun and init are those of a Reduce; type is
\* the BranchType a type guess built it for ("" if user code gave the type)
NewAction(p, kind, bl, h, fun, init) ==
  [kind |-> kind, fPrevData |-> p, fBranches |-> bl,
   fTmpBranches |-> GetTmpBranches(p), res |-> h, fun |-> fun, init |-> init,
   type |-> "",
   partial |-> [s \in 1..fNSlots |-> OpSeed(kind, init)],
   took |-> [s \in 1..fNSlots |-> <<>>]]

\* the proxy the next MakeActionResultProxy returns
NextProxy == Len(fReadiness) + 1

\* a booking whose operation is given the result object of the first proxy
\* instead of a new one
BookWithResult_SameObject(a, init) ==
  /\ fObjPtr' = Append(fObjPtr, init)
  /\ fReadiness' = Append(fReadiness, NewReadiness)
  /\ fResProxyReadiness' = Append(fResProxyReadiness, NextProxy)
  /\ fBookedActions' = Append(fBookedActions, [a EXCEPT !.res = 1])
  /\ proxyInfo' = Append(proxyInfo, [kind |-> a.kind, fPrevData |-> a.fPrevData,
                                     fBranches |-> a.fBranches, bookedAt |-> nRuns,
                                     merged |-> FALSE, fun |-> a.fun,
                                     init |-> init])

\* book action a together with the proxy of its result, the result object
\* starting as init (MakeActionResultProxy, then Book)
BookWithResult(a, init) ==
  /\ fObjPtr' = Append(fObjPtr, init)
  /\ fReadiness' = Append(fReadiness, NewReadiness)
  /\ fResProxyReadiness' = Append(fResProxyReadiness, NextProxy)
  /\ fBookedActions' = Append(fBookedActions, a)
  /\ proxyInfo' = Append(proxyInfo, [kind |-> a.kind, fPrevData |-> a.fPrevData,
                                     fBranches |-> a.fBranches, bookedAt |-> nRuns,
                                     merged |-> FALSE, fun |-> a.fun,
                                     init |-> init])

\* book an action of the given kind on node p together with its result proxy
BookLazy(p, kind, bl) ==
  BookWithResult(NewAction(p, kind, bl, NextProxy, "", OpInit(kind)), OpInit(kind))

\* ------------------------------------------------------------ type guessing
\* the BranchType for the type code that ends the title of a branch of a
\* fundamental type, "" if there is none
GuessFundamental(typeCode) ==
  CASE typeCode = "B" -> "char"
    [] typeCode = "I" -> "int"
    [] typeCode = "D" -> "double"
    [] OTHER          -> ""

\* the BranchType for the type name of a TBranchElement, "" if there is none
GuessElement(typeName) ==
  IF typeName \in {"vector<double>", "vector<float>"} THEN typeName ELSE ""

\* the BranchType for the type_info of a temporary branch, "" if there is none
GuessTmp(type_id) ==
  IF type_id \in {"char", "int", "double", "vector<double>", "vector<float>"}
  THEN type_id ELSE ""

\* TDataFrameBranch::GetTypeId of temporary branch b: typeid(Ret_t)
GetTypeId(b) == RetType(nodes[b].fExpression)

\* branch->GetTitle() on the null pointer tree->GetBranch returned is
\* undefined: the call crashes, or goes on to the exception, or returns from
\* one of the BuildAndBook of the function
NullBranchTitle ==
  {[err |-> "Segfault", type |-> ""], [err |-> "CannotInferType", type |-> ""]}
  \cup {[err |-> "", type |-> t] :
           t \in {"char", "int", "double", "vector<double>", "vector<float>"}}

\* CreateAction for TDataFrameGuessedType: the outcomes of the guess of the
\* type of theBranchName, each a BranchType or an exception
GuessType(theBranchName) ==
  IF theBranchName \in PhysicalBranches
  THEN \* real branch
       LET branch == TreeBranches[theBranchName]
           t == IF branch.element THEN GuessElement(branch.type)
                ELSE GuessFundamental(branch.type)
       IN IF t # "" THEN {[err |-> "", type |-> t]}
          ELSE {[err |-> "CannotInferType", type |-> ""]}
  ELSE IF theBranchName \notin DOMAIN fBookedBranches
  THEN \* TDataFrameImpl::GetBookedBranch of a name that is not booked
       {[err |-> "UnknownColumn", type |-> ""]}
  ELSE \* temporary branch
       LET type_id == GetTypeId(fBookedBranches[theBranchName])
       IN IF GuessTmp(type_id) # "" THEN {[err |-> "", type |-> GuessTmp(type_id)]}
          ELSE \* no return was taken: the code goes on as for a real branch
               NullBranchTitle

\* TDFV7Utils::Histo::HasAxisLimits
HasAxisLimits(h) == ~(h.xmin = 0 /\ h.xmax = 0)

\* BuildAndBook: the operation built for the action type and the result r;
\* for a Histo1D it is a FillTOOperation if the histogram has axis limits
\* and a FillOperation otherwise
OperationFor(actionType, r) ==
  IF actionType = "histo1d"
  THEN (IF HasAxisLimits(r) THEN "fillTO" ELSE "fill")
  ELSE actionType

\* BuildAndBook<BranchType>: book the action and the proxy of its result r
BuildAndBook(p, actionType, bl, r, BranchType) ==
  BookWithResult([NewAction(p, OperationFor(actionType, r), bl, NextProxy, "", r)
                    EXCEPT !.type = BranchType], r)

\* CreateAction for TDataFrameGuessedType on node p
CreateAction(p, actionType, bl, r) ==
  \E g \in GuessType(bl[1]) :
     IF g.err # "" THEN Throw(g.err)
     ELSE /\ BuildAndBook(p, actionType, bl, r, g.type)
          /\ thrown' = ""
          /\ UNCHANGED <<nodes, fBookedFilters, fBookedBranches>>

\* a Count that runs the event loop when it is booked, as the instant
\* actions do
Count_Instant(p) ==
  /\ pc = "idle"
  /\ Booked < MaxBooked
  /\ BookLazy(p, "count", <<>>)
  /\ RunStart
  /\ getting' = Len(fReadiness) + 1
  /\ UNCHANGED <<ntuple, iterated, rows, fDefaultBranches, thrown, fNSlots, fBookedFilters,
                 fBookedBranches, fHasRunAtLeastOnce, reportOut, demanded,
                 allocs, sourceRead, retired>>

\* TDataFrameInterface::Count on node p
Count(p) ==
  /\ pc \in {"idle", "gone"}
  /\ Booked < MaxBooked
  /\ IF GetDataFrameChecked # "" THEN Throw(GetDataFrameChecked)
     ELSE /\ BookLazy(p, "count", <<>>)
          /\ thrown' = ""
          /\ UNCHANGED <<nodes, fBookedFilters, fBookedBranches>>
  /\ UNCHANGED <<ntuple, iterated, rows, fDefaultBranches, fNSlots, fHasRunAtLeastOnce>>
  /\ UnchangedRun

\* TDataFrameInterface::Min on node p, the type of the branch left to guess
Min(p, branchName) ==
  /\ pc \in {"idle", "gone"}
  /\ Booked < MaxBooked
  /\ IF GetDataFrameChecked # "" THEN Throw(GetDataFrameChecked)
     ELSE LET bl == GetBranchNames(1, <<branchName>>)
     IN IF bl.err # "" THEN Throw(bl.err)
        ELSE CreateAction(p, "min", bl.bl, OpInit("min"))
  /\ UNCHANGED <<ntuple, iterated, rows, fDefaultBranches, fNSlots, fHasRunAtLeastOnce>>
  /\ UnchangedRun

\* a Reduce whose operation seeds the slots with the smallest positive
\* double instead of the initial value
Reduce_Unseeded(p, f, branchName, initValue) ==
  /\ pc = "idle"
  /\ Booked < MaxBooked
  /\ LET bl == GetBranchNames(1, <<branchName>>)
     IN IF bl.err # "" THEN Throw(bl.err)
        ELSE /\ BookWithResult(NewAction(p, "reduce", bl.bl, NextProxy, f, DoubleMin),
                               initValue)
             /\ thrown' = ""
             /\ UNCHANGED <<nodes, fBookedFilters, fBookedBranches>>
  /\ UNCHANGED <<ntuple, iterated, rows, fDefaultBranches, fNSlots, fHasRunAtLeastOnce>>
  /\ UnchangedRun

\* a Reduce that makes the result proxy before it resolves the branch names
Reduce_ProxyFirst(p, f, branchName, initValue) ==
  /\ pc \in {"idle", "gone"}
  /\ Booked < MaxBooked
  /\ IF GetDataFrameChecked # "" THEN Throw(GetDataFrameChecked)
     ELSE LET bl == GetBranchNames(1, <<branchName>>)
          IN IF bl.err # ""
             THEN /\ thrown' = bl.err
                  /\ fObjPtr' = Append(fObjPtr, initValue)
                  /\ fReadiness' = Append(fReadiness, NewReadiness)
                  /\ fResProxyReadiness' = Append(fResProxyReadiness, NextProxy)
                  /\ proxyInfo' = Append(proxyInfo,
                        [kind |-> "reduce", fPrevData |-> p, fBranches |-> <<>>,
                         bookedAt |-> nRuns, merged |-> FALSE, fun |-> f,
                         init |-> initValue])
                  /\ UNCHANGED <<nodes, fBookedFilters, fBookedBranches,
                                 fBookedActions>>
             ELSE /\ BookWithResult(NewAction(p, "reduce", bl.bl, NextProxy, f, initValue),
                                    initValue)
                  /\ thrown' = ""
                  /\ UNCHANGED <<nodes, fBookedFilters, fBookedBranches>>
  /\ UNCHANGED <<ntuple, iterated, rows, fDefaultBranches, fNSlots, fHasRunAtLeastOnce>>
  /\ UnchangedRun

\* TDataFrameInterface::Reduce on node p
Reduce(p, f, branchName, initValue) ==
  /\ pc \in {"idle", "gone"}
  /\ Booked < MaxBooked
  /\ IF GetDataFrameChecked # "" THEN Throw(GetDataFrameChecked)
     ELSE LET bl == GetBranchNames(1, <<branchName>>)
     IN IF bl.err # "" THEN Throw(bl.err)
        ELSE /\ BookWithResult(NewAction(p, "reduce", bl.bl, NextProxy, f, initValue),
                               initValue)
             /\ thrown' = ""
             /\ UNCHANGED <<nodes, fBookedFilters, fBookedBranches>>
  /\ UNCHANGED <<ntuple, iterated, rows, fDefaultBranches, fNSlots, fHasRunAtLeastOnce>>
  /\ UnchangedRun

\* TDataFrameInterface::Take<T, COLL> on node p
Take(p, branchName) ==
  /\ pc \in {"idle", "gone"}
  /\ Booked < MaxBooked
  /\ IF GetDataFrameChecked # "" THEN Throw(GetDataFrameChecked)
     ELSE LET bl == GetBranchNames(1, <<branchName>>)
     IN IF bl.err # "" THEN Throw(bl.err)
        ELSE /\ BookLazy(p, "take", bl.bl)
             /\ thrown' = ""
             /\ UNCHANGED <<nodes, fBookedFilters, fBookedBranches>>
  /\ UNCHANGED <<ntuple, iterated, rows, fDefaultBranches, fNSlots, fHasRunAtLeastOnce>>
  /\ UnchangedRun

\* TDataFrameInterface::Max on node p, the type of the branch left to guess
Max(p, branchName) ==
  /\ pc \in {"idle", "gone"}
  /\ Booked < MaxBooked
  /\ IF GetDataFrameChecked # "" THEN Throw(GetDataFrameChecked)
     ELSE LET bl == GetBranchNames(1, <<branchName>>)
     IN IF bl.err # "" THEN Throw(bl.err)
        ELSE CreateAction(p, "max", bl.bl, OpInit("max"))
  /\ UNCHANGED <<ntuple, iterated, rows, fDefaultBranches, fNSlots, fHasRunAtLeastOnce>>
  /\ UnchangedRun

\* TDataFrameInterface::Mean on node p, the type of the branch left to guess
Mean(p, branchName) ==
  /\ pc \in {"idle", "gone"}
  /\ Booked < MaxBooked
  /\ IF GetDataFrameChecked # "" THEN Throw(GetDataFrameChecked)
     ELSE LET bl == GetBranchNames(1, <<branchName>>)
     IN IF bl.err # "" THEN Throw(bl.err)
        ELSE CreateAction(p, "mean", bl.bl, OpInit("mean"))
  /\ UNCHANGED <<ntuple, iterated, rows, fDefaultBranches, fNSlots, fHasRunAtLeastOnce>>
  /\ UnchangedRun

\* ::TH1F h("", "", nBins, minVal, maxVal): the limits of its axis
TH1F(minVal, maxVal) == [xmin |-> minVal, xmax |-> maxVal, canExtend |-> FALSE]

\* SetCanExtendAllAxes: h.SetCanExtend(::TH1::kAllAxes)
SetCanExtendAllAxes(h) == [h EXCEPT !.canExtend = TRUE]

\* TDataFrameInterface::Histo1D(valBranchName, nBins, minVal, maxVal) on node
\* p, without weights, the type of the branch left to guess. The names it
\* resolves go through GetBranchNames again in Histo1D(model, ...).
Histo1D(p, valBranchName, minVal, maxVal) ==
  /\ pc \in {"idle", "gone"}
  /\ Booked < MaxBooked
  /\ IF GetDataFrameChecked # "" THEN Throw(GetDataFrameChecked)
     ELSE LET bl == GetBranchNames(1, <<valBranchName, "">>)
         h  == IF minVal = maxVal THEN SetCanExtendAllAxes(TH1F(minVal, maxVal))
               ELSE TH1F(minVal, maxVal)
     IN IF bl.err # "" THEN Throw(bl.err)
        ELSE LET again == GetBranchNames(1, <<bl.bl[1],
                                              IF Len(bl.bl) = 1 THEN "" ELSE bl.bl[2]>>)
             IN IF again.err # "" THEN Throw(again.err)
                ELSE CreateAction(p, "histo1d", again.bl, h)
  /\ UNCHANGED <<ntuple, iterated, rows, fDefaultBranches, fNSlots, fHasRunAtLeastOnce>>
  /\ UnchangedRun

\* ::TH2F and ::TH3F: the limits of their axes
TH2F(xmin, xmax, ymin, ymax) ==
  [xmin |-> xmin, xmax |-> xmax, ymin |-> ymin, ymax |-> ymax]

TH3F(xmin, xmax, ymin, ymax, zmin, zmax) ==
  [xmin |-> xmin, xmax |-> xmax, ymin |-> ymin, ymax |-> ymax,
   zmin |-> zmin, zmax |-> zmax]

\* TDataFrameInterface::Histo2D<B0, B1>(model, b0BranchName, b1BranchName) on
\* node p
Histo2D(p, model, b0BranchName, b1BranchName) ==
  /\ pc \in {"idle", "gone"}
  /\ Booked < MaxBooked
  /\ IF ~HasAxisLimits(model)
     THEN Throw("HistogramNeedsAxisLimits")
     ELSE IF GetDataFrameChecked # "" THEN Throw(GetDataFrameChecked)
     ELSE LET bl == GetBranchNames(2, <<b0BranchName, b1BranchName>>)
          IN IF bl.err # "" THEN Throw(bl.err)
             ELSE /\ BookWithResult(NewAction(p, "fillTO", bl.bl, NextProxy, "", model),
                                    model)
                  /\ thrown' = ""
                  /\ UNCHANGED <<nodes, fBookedFilters, fBookedBranches>>
  /\ UNCHANGED <<ntuple, iterated, rows, fDefaultBranches, fNSlots, fHasRunAtLeastOnce>>
  /\ UnchangedRun

\* TDataFrameInterface::Histo3D<B0, B1, B2>(model, b0BranchName, b1BranchName,
\* b2BranchName) on node p, without weights
Histo3D(p, model, b0BranchName, b1BranchName, b2BranchName) ==
  /\ pc \in {"idle", "gone"}
  /\ Booked < MaxBooked
  /\ IF ~HasAxisLimits(model)
     THEN Throw("HistogramNeedsAxisLimits")
     ELSE IF GetDataFrameChecked # "" THEN Throw(GetDataFrameChecked)
     ELSE LET bl == GetBranchNames(3, <<b0BranchName, b1BranchName, b2BranchName, "">>)
          IN IF bl.err # "" THEN Throw(bl.err)
             ELSE /\ BookWithResult(NewAction(p, "fillTO", bl.bl, NextProxy, "", model),
                                    model)
                  /\ thrown' = ""
                  /\ UNCHANGED <<nodes, fBookedFilters, fBookedBranches>>
  /\ UNCHANGED <<ntuple, iterated, rows, fDefaultBranches, fNSlots, fHasRunAtLeastOnce>>
  /\ UnchangedRun

\* a ForeachSlot that books its action and returns
ForeachSlot_Lazy(p, f, bl) ==
  /\ pc = "idle"
  /\ LET actualBl == PickBranchNames(1, bl, fDefaultBranches)
     IN IF actualBl.err # "" THEN Throw(actualBl.err)
        ELSE /\ fBookedActions' = Append(fBookedActions,
                                    NewAction(p, "foreach", actualBl.bl, 0, f, 0))
             /\ thrown' = ""
             /\ UNCHANGED <<nodes, fBookedFilters, fBookedBranches,
                            fResProxyReadiness, fReadiness, fObjPtr, proxyInfo>>
  /\ UNCHANGED <<ntuple, iterated, rows, fDefaultBranches, fNSlots, fHasRunAtLeastOnce>>
  /\ UnchangedRun

\* TDataFrameInterface::ForeachSlot on node p: df->Book(action); df->Run().
\* The run goes on in RunEntry, RunMerge and RunReady, and ForeachSlot
\* returns when Run does.
ForeachSlot(p, f, bl) ==
  /\ pc \in {"idle", "gone"}
  /\ LET actualBl == PickBranchNames(1, bl, fDefaultBranches)
     IN IF GetDataFrameChecked # ""
        THEN /\ Throw(GetDataFrameChecked)
             /\ UnchangedRun
        ELSE IF actualBl.err # ""
        THEN /\ Throw(actualBl.err)
             /\ UnchangedRun
        ELSE /\ fBookedActions' = Append(fBookedActions,
                                    NewAction(p, "foreach", actualBl.bl, 0, f, 0))
             /\ RunStart
             /\ getting' = 0
             /\ thrown' = ""
             /\ UNCHANGED <<fBookedFilters, fBookedBranches, fResProxyReadiness,
                            fReadiness, fObjPtr, proxyInfo, reportOut, demanded,
                            allocs, sourceRead, retired>>
  /\ UNCHANGED <<ntuple, iterated, rows, fDefaultBranches, fNSlots, fHasRunAtLeastOnce>>

\* AddSlotParameter: the callable that ignores the slot and calls f
AddSlotParameter(f) ==
  CASE f = "visit" -> "visit, slot ignored"

\* TDataFrameInterface::Foreach on node p
Foreach(p, f, bl) == ForeachSlot(p, AddSlotParameter(f), bl)

\* ------------------------------------------------------------ the event loop
\* a Get that triggers the event loop whatever the readiness says
Get_AlwaysRuns(h) ==
  /\ pc = "idle"
  /\ h \in 1..Len(fReadiness)
  /\ RunStart
  /\ getting' = h
  /\ thrown' = ""
  /\ demanded' = TRUE
  /\ UNCHANGED <<ntuple, iterated, rows, fDefaultBranches, fNSlots, fBookedFilters, fBookedBranches, fBookedActions,
                 fResProxyReadiness, fHasRunAtLeastOnce, fReadiness, fObjPtr,
                 reportOut, allocs, sourceRead, proxyInfo, retired>>

\* TActionResultProxy::TriggerRun of proxy h: fFirstData.lock(), then Run()
\* or the runtime_error "The main TDataFrame is not reachable"
TriggerRun(h) ==
  IF pc = "gone"
  THEN /\ thrown' = "EngineGone"
       /\ getting' = h
       /\ UNCHANGED <<pc, nodes, nextEntry, nRuns, calls, order, asked, served, evals,
                      visited>>
  ELSE /\ RunStart
       /\ getting' = h
       /\ thrown' = ""

\* TActionResultProxy::Get (with TriggerRun): the run it triggers goes on in
\* RunEntry, RunMerge and RunReady, and Get returns when Run does
Get(h) ==
  /\ pc \in {"idle", "gone"}
  /\ h \in 1..Len(fReadiness)
  /\ IF ~fReadiness[h]
     THEN TriggerRun(h)
     ELSE \* return fObjPtr.get()
          /\ thrown' = ""
          /\ getting' = IF pc = "gone" THEN h ELSE getting
          /\ UNCHANGED <<pc, nodes, nextEntry, nRuns, calls, order, asked, served,
                         evals, visited>>
  /\ demanded' = TRUE
  /\ UNCHANGED <<ntuple, iterated, rows, fDefaultBranches, fNSlots, fBookedFilters, fBookedBranches, fBookedActions,
                 fResProxyReadiness, fHasRunAtLeastOnce, fReadiness, fObjPtr,
                 reportOut, allocs, sourceRead, proxyInfo, retired>>

\* begin() and end() exist for the proxies whose object is a collection
\* (TIterationHelper<T>): the results of Take
IsCollection(h) == proxyInfo[h].kind = "take"

\* what begin() and end() do: TriggerRun() if the proxy is not ready
\* (the run goes on in RunEntry, RunMerge and RunReady), then the iterator
\* is taken from *fObjPtr
Iterate(h, point) ==
  /\ pc \in {"idle", "gone"}
  /\ h \in 1..Len(fReadiness)
  /\ IsCollection(h)
  /\ IF ~fReadiness[h]
     THEN TriggerRun(h)
     ELSE /\ thrown' = ""
          /\ getting' = IF pc = "gone" THEN h ELSE getting
          /\ UNCHANGED <<pc, nodes, nextEntry, nRuns, calls, order, asked, served,
                         evals, visited>>
  /\ iterated' = [h |-> h, point |-> point, ready |-> fReadiness[h]]
  /\ demanded' = TRUE
  /\ UNCHANGED <<ntuple, rows, fDefaultBranches, fNSlots, fBookedFilters,
                 fBookedBranches, fBookedActions, fResProxyReadiness,
                 fHasRunAtLeastOnce, fReadiness, fObjPtr, reportOut, allocs,
                 sourceRead, proxyInfo, retired>>

\* a begin() that takes the iterator without looking at the readiness
begin_NoRun(h) ==
  /\ pc \in {"idle", "gone"}
  /\ h \in 1..Len(fReadiness)
  /\ IsCollection(h)
  /\ thrown' = ""
  /\ iterated' = [h |-> h, point |-> "begin", ready |-> fReadiness[h]]
  /\ demanded' = TRUE
  /\ UNCHANGED <<ntuple, rows, fDefaultBranches, fNSlots, fBookedFilters,
                 fBookedBranches, fBookedActions, fResProxyReadiness,
                 fHasRunAtLeastOnce, fReadiness, fObjPtr, reportOut, allocs,
                 sourceRead, proxyInfo, retired, pc, nodes, nextEntry, nRuns,
                 calls, order, asked, served, evals, visited, getting>>

\* TActionResultProxy::begin
begin(h) == Iterate(h, "begin")

\* TActionResultProxy::end
end(h) == Iterate(h, "end")

\* TDataFrameImpl::Run, one iteration of the loop on the entries: the worker
\* of `slot` is handed the next entry and runs every booked action on it. An
\* exception of a user callable unwinds Run and the Get or ForeachSlot that
\* called it: what Run does after the loop is not done.
RunEntry(slot) ==
  /\ pc = "loop"
  /\ nextEntry < Len(rows)
  /\ LET m == RunActions([Mem EXCEPT !.calls = <<>>, !.order = <<>>,
                                      !.asked = <<>>, !.served = <<>>],
                          1, slot, nextEntry)
     IN /\ nodes' = m.n
        /\ fBookedActions' = m.acts
        /\ fObjPtr' = m.res
        /\ calls' = m.calls
        /\ order' = m.order
        /\ asked' = m.asked
        /\ served' = m.served
        /\ evals' = m.evals
        /\ allocs' = m.allocs
        /\ sourceRead' = m.sourceRead
        /\ IF m.exc
           THEN pc' = "idle" /\ getting' = 0 /\ thrown' = "UserError"
           ELSE UNCHANGED <<pc, getting, thrown>>
  /\ visited' = {<<slot, nextEntry>>}
  /\ nextEntry' = nextEntry + 1
  /\ UNCHANGED <<ntuple, iterated, rows, fDefaultBranches, fNSlots, fBookedFilters, fBookedBranches,
                 fResProxyReadiness, fHasRunAtLeastOnce, fReadiness,
                 reportOut, demanded, nRuns, proxyInfo, retired>>

\* the result object of proxy h after the booked actions are destroyed: the
\* operation of an action merges its per-slot partials when it is deleted
Merged(h) ==
  IF \E i \in DOMAIN fBookedActions : fBookedActions[i].res = h
  THEN LET a == fBookedActions[CHOOSE i \in DOMAIN fBookedActions :
                                 fBookedActions[i].res = h]
       IN ActionMerge(a)
  ELSE fObjPtr[h]

\* TDataFrameImpl::Run after the loop: fBookedActions.clear()
RunMerge ==
  /\ pc = "loop"
  /\ nextEntry = Len(rows)
  /\ fHasRunAtLeastOnce' = TRUE
  /\ fObjPtr' = [h \in DOMAIN fObjPtr |-> Merged(h)]
  /\ retired' = [h \in {fBookedActions[i].res : i \in DOMAIN fBookedActions} |->
                   LET a == CHOOSE a \in Range(fBookedActions) : a.res = h
                   IN [partial |-> a.partial, entries |-> nextEntry,
                       took |-> a.took, kind |-> a.kind,
                       fPrevData |-> a.fPrevData]]
  /\ proxyInfo' = [h \in DOMAIN proxyInfo |->
                     IF \E i \in DOMAIN fBookedActions : fBookedActions[i].res = h
                     THEN [proxyInfo[h] EXCEPT !.merged = TRUE] ELSE proxyInfo[h]]
  /\ fBookedActions' = <<>>
  /\ pc' = "merged"
  /\ UNCHANGED <<ntuple, iterated, rows, fDefaultBranches, thrown, fNSlots, nodes, fBookedFilters, fBookedBranches,
                 fResProxyReadiness, fReadiness, nextEntry, getting,
                 reportOut, calls, order, asked, served, evals, demanded, allocs,
                 visited, sourceRead, nRuns>>

\* TDataFrameImpl::Run, the end: the registered proxies are marked ready and
\* forgotten; the Get that triggered the run returns
RunReady ==
  /\ pc = "merged"
  /\ fReadiness' = [h \in DOMAIN fReadiness |->
                      IF h \in Range(fResProxyReadiness) THEN TRUE ELSE fReadiness[h]]
  /\ fResProxyReadiness' = <<>>
  /\ pc' = "idle"
  /\ getting' = 0
  /\ calls' = <<>>
  /\ order' = <<>>
  /\ asked' = <<>>
  /\ served' = <<>>
  /\ visited' = {}
  /\ retired' = <<>>
  /\ UNCHANGED <<ntuple, iterated, rows, fDefaultBranches, thrown, fNSlots, nodes, fBookedFilters, fBookedBranches,
                 fBookedActions, fHasRunAtLeastOnce, fObjPtr, nextEntry,
                 reportOut, evals, demanded, allocs, sourceRead, nRuns,
                 proxyInfo>>

\* the TDataFrame goes out of scope: the TDataFrameImpl is destroyed, the
\* weak pointers to it (fFirstData) expire; the result objects live on in
\* their proxies
Destroy ==
  /\ pc = "idle"
  /\ pc' = "gone"
  /\ UNCHANGED <<ntuple, iterated, rows, fDefaultBranches, fNSlots, nodes, fBookedFilters, fBookedBranches,
                 fBookedActions, fResProxyReadiness, fHasRunAtLeastOnce,
                 fReadiness, fObjPtr, nextEntry, getting, thrown, reportOut,
                 calls, order, asked, served, evals, demanded, allocs, visited,
                 sourceRead, nRuns, proxyInfo, retired>>

\* ----------------------------------------------------------------- reports
\* TDataFrameFilterBase::PrintReport: the line of a named filter, the counters
\* summed over the slots
PrintReport(id) ==
  IF nodes[id].fName = "" THEN <<>>
  ELSE LET accepted == SumSeq(nodes[id].fAccepted)
           all      == accepted + SumSeq(nodes[id].fRejected)
       IN <<[name |-> nodes[id].fName, pass |-> accepted, all |-> all]>>

RECURSIVE PartialReport(_)

\* a PartialReport that prints its own line before the lines upstream
PartialReport_OwnFirst(id) ==
  IF id = 0 THEN <<>>
  ELSE IF nodes[id].kind = "branch" THEN PartialReport(nodes[id].fPrevData)
  ELSE PrintReport(id) \o PartialReport(nodes[id].fPrevData)

\* PrevData::PartialReport, dispatched on the class of the node:
\* TDataFrameImpl (does nothing), TDataFrameBranch (forwards), TDataFrameFilter
PartialReport(id) ==
  IF id = 0 THEN <<>>
  ELSE IF nodes[id].kind = "branch" THEN PartialReport(nodes[id].fPrevData)
  ELSE PartialReport(nodes[id].fPrevData) \o PrintReport(id)

\* TDataFrameImpl::Report: every booked filter, in booking order
RECURSIVE ImplReport(_)
ImplReport(i) ==
  IF i > Len(fBookedFilters) THEN <<>>
  ELSE PrintReport(fBookedFilters[i]) \o ImplReport(i + 1)

\* a Report that prints every booked filter, whatever the node
NodeReport_All(p) == ImplReport(1)

\* fProxiedPtr->Report(), dispatched on the class of the node
NodeReport(p) ==
  IF p = 0 THEN ImplReport(1)
  ELSE IF nodes[p].kind = "branch" THEN PartialReport(nodes[p].fPrevData)
  ELSE PartialReport(p)

\* TDataFrameInterface::Report on node p
Report(p) ==
  /\ pc = "idle"
  /\ reportOut' = IF ~fHasRunAtLeastOnce
                  THEN \* Info(...): the event-loop has not been run yet
                       [node |-> p, warning |-> TRUE, lines |-> <<>>]
                  ELSE [node |-> p, warning |-> FALSE, lines |-> NodeReport(p)]
  /\ thrown' = ""
  /\ UNCHANGED <<ntuple, iterated, rows, fDefaultBranches, fNSlots, nodes, fBookedFilters, fBookedBranches,
                 fBookedActions, fResProxyReadiness, fHasRunAtLeastOnce,
                 fReadiness, fObjPtr, pc, nextEntry, getting, calls, order, asked,
                 served, evals, demanded, allocs, visited, sourceRead, nRuns,
                 proxyInfo, retired>>

\* --------------------------------------------------------- specifications
\* the TDataFrameImpl after its constructor, for a tree with the given rows
\* and the given default branches, and the history of a program that has
\* called nothing yet
Frame(table, nSlots, defaultBranches) ==
  /\ rows = table
  /\ fDefaultBranches = defaultBranches
  /\ fNSlots = nSlots
  /\ nodes = <<>>
  /\ fBookedFilters = <<>>
  /\ fBookedBranches = <<>>
  /\ fBookedActions = <<>>
  /\ fResProxyReadiness = <<>>
  /\ fHasRunAtLeastOnce = FALSE
  /\ fReadiness = <<>>
  /\ fObjPtr = <<>>
  /\ pc = "idle"
  /\ nextEntry = 0
  /\ getting = 0
  /\ thrown = ""
  /\ reportOut = <<>>
  /\ calls = <<>>
  /\ order = <<>>
  /\ asked = <<>>
  /\ served = <<>>
  /\ evals = <<>>
  /\ demanded = FALSE
  /\ allocs = <<>>
  /\ visited = {}
  /\ sourceRead = FALSE
  /\ nRuns = 0
  /\ proxyInfo = <<>>
  /\ retired = <<>>
  /\ iterated = <<>>

\* the state after TDataFrame's constructor
ConstructedWith(table, nSlots, defaultBranches) ==
  /\ Frame(table, nSlots, defaultBranches)
  /\ NoNTuple

\* no TDataFrame has been constructed
NoFrame == Frame(<<>>, 1, <<>>)

\* the state after TDataFrame's constructor, the default branches being "x"
Constructed(table, nSlots) == ConstructedWith(table, nSlots, DefaultBranches)

Init == \E k \in 1..MaxSlots : Constructed(TablePrefix(MaxRows), k)

\* the filters and temporary branches user code defines
UserFilters == {[f |-> "even", bl |-> <<"x">>, name |-> "even"],
                [f |-> "gt2", bl |-> <<"x">>, name |-> ""],
                [f |-> "big", bl |-> <<"y">>, name |-> "big"]}

UserBranches == {[name |-> "y", expression |-> "dbl", bl |-> <<"x">>]}

Next ==
  \/ \E p \in 0..Len(nodes), u \in UserFilters :
        CanRead(p, u.bl) /\ Filter(p, u.f, u.bl, u.name)
  \/ \E p \in 0..Len(nodes), u \in UserBranches :
        NewName(u.name) /\ CanRead(p, u.bl) /\ AddBranch(p, u.name, u.expression, u.bl)
  \/ \E p \in 0..Len(nodes) : Count(p)
  \/ \E p \in 0..Len(nodes), c \in {"x", "y"} : CanRead(p, <<c>>) /\ Min(p, c)
  \/ \E h \in 1..Len(fReadiness) : Get(h)
  \/ \E slot \in Slots : RunEntry(slot)
  \/ RunMerge
  \/ RunReady

Spec == Init /\ [][Next]_vars

\* ----------------------------------------------------------- aggregations
\* Programs that first book a chain of filters, and the aggregations Count,
\* Min, Max and Mean of column x on the end of the chain as it grows, and
\* then read the results, on a table of MaxRows + 1 rows so that two slots can be handed
\* different numbers of rows.
InitAgg == \E k \in 1..MaxSlots : Constructed(TablePrefix(MaxRows + 1), k)

AggFilters == {[f |-> "even", bl |-> <<"x">>, name |-> "even"],
               [f |-> "gt2", bl |-> <<"x">>, name |-> ""]}

NextAgg ==
  \/ nRuns = 0 /\ \E u \in AggFilters : Filter(Len(nodes), u.f, u.bl, u.name)
  \/ nRuns = 0 /\ Count(Len(nodes))
  \/ nRuns = 0 /\ Min(Len(nodes), "x")
  \/ nRuns = 0 /\ Max(Len(nodes), "x")
  \/ nRuns = 0 /\ Mean(Len(nodes), "x")
  \/ \E h \in 1..Len(fReadiness) : Get(h)
  \/ \E slot \in Slots : RunEntry(slot)
  \/ RunMerge
  \/ RunReady

SpecAgg == InitAgg /\ [][NextAgg]_vars

\* ---------------------------------------------------------------- Reduce
\* Programs that first book a chain of filters, and Reduce actions on the
\* end of the chain as it grows, with an associative function (the sum or
\* the maximum) and an initial value (0.0 or 0.5), and then read the results.
ReduceFuns == {"sum", "max"}

ReduceInits == {0, 1}

NextReduce ==
  \/ nRuns = 0 /\ \E u \in AggFilters : Filter(Len(nodes), u.f, u.bl, u.name)
  \/ nRuns = 0 /\ \E f \in ReduceFuns, init \in ReduceInits :
                      Reduce(Len(nodes), f, "x", init)
  \/ \E h \in 1..Len(fReadiness) : Get(h)
  \/ \E slot \in Slots : RunEntry(slot)
  \/ RunMerge
  \/ RunReady

SpecReduce == InitAgg /\ [][NextReduce]_vars

\* ------------------------------------------------------------------ Take
\* Programs that first book a chain of filters, and Take actions on the end
\* of the chain as it grows, and then read the results.
NextTake ==
  \/ nRuns = 0 /\ \E u \in AggFilters : Filter(Len(nodes), u.f, u.bl, u.name)
  \/ nRuns = 0 /\ Take(Len(nodes), "x")
  \/ \E h \in 1..Len(fReadiness) : Get(h)
  \/ \E slot \in Slots : RunEntry(slot)
  \/ RunMerge
  \/ RunReady

SpecTake == InitAgg /\ [][NextTake]_vars

\* The program of scenario S6, Take<int>("x") on the table of the scenario
\* with two slots, followed by dereferences of the result. The provider
\* hands a slot one range of rows at a time: a range is a maximal sequence
\* of consecutive RunEntry steps of the same slot.
S6Slots == 2

InitS6 == Constructed(Table, S6Slots)

NextS6 ==
  \/ nRuns = 0 /\ fReadiness = <<>> /\ Take(0, "x")
  \/ \E h \in 1..Len(fReadiness) : Get(h)
  \/ \E slot \in Slots : RunEntry(slot)
  \/ RunMerge
  \/ RunReady

SpecS6 == InitS6 /\ [][NextS6]_vars

\* -------------------------------------------------------- instant actions
\* Programs that book a chain of filters and Count actions on any node, call
\* Foreach or ForeachSlot on any node before any other run, and read results.
NextInstant ==
  \/ \E u \in AggFilters : Filter(Len(nodes), u.f, u.bl, u.name)
  \/ \E p \in 0..Len(nodes) : Count(p)
  \/ nRuns = 0 /\ \E p \in 0..Len(nodes) : Foreach(p, "visit", <<"x">>)
  \/ nRuns = 0 /\ \E p \in 0..Len(nodes) : ForeachSlot(p, "visit", <<"x">>)
  \/ \E h \in 1..Len(fReadiness) : Get(h)
  \/ \E slot \in Slots : RunEntry(slot)
  \/ RunMerge
  \/ RunReady

SpecInstant == Init /\ [][NextInstant]_vars

\* -------------------------------------------------------- engine lifetime
\* Programs that book a chain of filters and Count actions, read results,
\* let the TDataFrame go out of scope and go on reading results.
NextLife ==
  \/ pc = "idle" /\ \E u \in AggFilters : Filter(Len(nodes), u.f, u.bl, u.name)
  \/ pc = "idle" /\ \E p \in 0..Len(nodes) : Count(p)
  \/ \E h \in 1..Len(fReadiness) : Get(h)
  \/ \E slot \in Slots : RunEntry(slot)
  \/ RunMerge
  \/ RunReady
  \/ Destroy

SpecLife == Init /\ [][NextLife]_vars

\* --------------------------------------------------------------- reports
\* Programs that first book filters, temporary branches and Count actions on
\* any node, then read the results and call Report on any node.
NextRep ==
  \/ nRuns = 0 /\ \E p \in 0..Len(nodes), u \in UserFilters :
                      CanRead(p, u.bl) /\ Filter(p, u.f, u.bl, u.name)
  \/ nRuns = 0 /\ \E p \in 0..Len(nodes), u \in UserBranches :
                      /\ NewName(u.name) /\ CanRead(p, u.bl)
                      /\ AddBranch(p, u.name, u.expression, u.bl)
  \/ nRuns = 0 /\ \E p \in 0..Len(nodes) : Count(p)
  \/ \E h \in 1..Len(fReadiness) : Get(h)
  \/ \E slot \in Slots : RunEntry(slot)
  \/ RunMerge
  \/ RunReady
  \/ \E p \in 0..Len(nodes) : Report(p)

SpecRep == Init /\ [][NextRep]_vars

\* ------------------------------------------------------------ later runs
\* Programs that book a chain of filters and Count and Min actions on any
\* node, read results, book more, and call ForeachSlot after the first run.
NextRerun ==
  \/ \E u \in AggFilters : Filter(Len(nodes), u.f, u.bl, u.name)
  \/ \E p \in 0..Len(nodes) : Count(p)
  \/ \E p \in 0..Len(nodes) : Min(p, "x")
  \/ nRuns = 1 /\ \E p \in 0..Len(nodes) : ForeachSlot(p, "visit", <<"x">>)
  \/ \E h \in 1..Len(fReadiness) : Get(h)
  \/ \E slot \in Slots : RunEntry(slot)
  \/ RunMerge
  \/ RunReady

SpecRerun == Init /\ [][NextRerun]_vars

\* ------------------------------------------------- failing user callables
\* Programs that book a chain of filters and temporary branches, one of the
\* predicates throwing on some rows, and Count actions on any node, read
\* results, and end when an exception reaches them.
ThrowFilters == {[f |-> "even", bl |-> <<"x">>, name |-> "even"],
                 [f |-> "boom", bl |-> <<"x">>, name |-> ""],
                 [f |-> "boom", bl |-> <<"y">>, name |-> "boom"]}

NextThrow ==
  \/ thrown = "" /\ \E u \in ThrowFilters :
                       CanRead(Len(nodes), u.bl) /\ Filter(Len(nodes), u.f, u.bl, u.name)
  \/ thrown = "" /\ \E u \in UserBranches :
                       /\ NewName(u.name) /\ CanRead(Len(nodes), u.bl)
                       /\ AddBranch(Len(nodes), u.name, u.expression, u.bl)
  \/ thrown = "" /\ \E p \in 0..Len(nodes) : Count(p)
  \/ thrown = "" /\ \E h \in 1..Len(fReadiness) : Get(h)
  \/ \E slot \in Slots : RunEntry(slot)
  \/ RunMerge
  \/ RunReady

SpecThrow == Init /\ [][NextThrow]_vars

\* --------------------------------------------------------- column names
\* Programs that book, on the end of a chain, filters, temporary branches,
\* Take actions and two- and three-dimensional histograms, and name none,
\* some or all of the columns, on a TDataFrame constructed with zero to
\* three default branches. The names user code gives are not names of
\* default branches, so that the list a node ends up with tells which one
\* it was given.
NameDefaults == {<<>>, <<"x">>, <<"x", "d">>, <<"x", "d", "vd">>}

InitNames == \E defBl \in NameDefaults : ConstructedWith(TablePrefix(MaxRows), 1, defBl)

\* the lists a call with a callable of one argument is given: no name, one
\* name, one name after an empty one, two names
NamesForOne == {<<>>, <<"b">>, <<"", "b">>, <<"b", "f">>}

\* the names a histogram call is given for each of its columns
NamesForAxis == {"", "b"}

NewBranchNames == {"y", "x"}

H2Model == TH2F(0, 1, 0, 1)

H3Model == TH3F(0, 1, 0, 1, 0, 1)

NextNames ==
  \/ \E bl \in NamesForOne : Filter(Len(nodes), "gt2", bl, "")
  \/ \E bl \in NamesForOne, name \in NewBranchNames :
        AddBranch(Len(nodes), name, "dbl", bl)
  \/ \E b \in NamesForAxis : Take(Len(nodes), b)
  \/ \E b0, b1 \in NamesForAxis : Histo2D(Len(nodes), H2Model, b0, b1)
  \/ \E b1, b2 \in NamesForAxis : Histo3D(Len(nodes), H3Model, "b", b1, b2)

SpecNames == InitNames /\ [][NextNames]_vars

\* ---------------------------------------------------- temporary branches
\* Programs that book filters and temporary branches on any node of the
\* graph, under new names, names taken before and the name of a branch of
\* the tree.
DefineNames == {"y", "z", "x"}

InitDefine == Constructed(TablePrefix(MaxRows), 1)

NextDefine ==
  \/ \E p \in 0..Len(nodes) : Filter(p, "gt2", <<"x">>, "")
  \/ \E p \in 0..Len(nodes), name \in DefineNames :
        AddBranch(p, name, "dbl", <<"x">>)

SpecDefine == InitDefine /\ [][NextDefine]_vars

\* -------------------------------------------------------- unknown columns
\* Programs that book, on any node of the graph, filters, temporary branches
\* and Take actions on a branch of the tree, on the temporary branch "y"
\* (defined or not upstream of the node) and on a name that is no column.
ColumnNames == {"x", "y", "nope"}

InitUnknown == Constructed(TablePrefix(MaxRows), 1)

NextUnknown ==
  \/ \E p \in 0..Len(nodes), b \in ColumnNames : Filter(p, "gt2", <<b>>, "")
  \/ \E p \in 0..Len(nodes), b \in ColumnNames : AddBranch(p, "y", "dbl", <<b>>)
  \/ \E p \in 0..Len(nodes), b \in ColumnNames : Take(p, b)

SpecUnknown == InitUnknown /\ [][NextUnknown]_vars

\* ----------------------------------------------------------- guessed types
\* Programs that book, on the end of a chain, temporary branches of the
\* types int, double, bool and std::vector<int>, and Min, Max, Mean and
\* Histo1D actions that leave the type of the column to guess, on branches
\* of the tree and on the temporary branches. A program that crashed makes
\* no further call.
GuessBranches ==
  {[name |-> "y", expression |-> "dbl"], [name |-> "h", expression |-> "half"],
   [name |-> "o", expression |-> "odd"], [name |-> "hv", expression |-> "hits"]}

GuessColumns == PhysicalBranches \cup {u.name : u \in GuessBranches}

InitGuess == Constructed(TablePrefix(MaxRows), 1)

NextGuess ==
  \/ thrown # "Segfault" /\ \E u \in GuessBranches :
        AddBranch(Len(nodes), u.name, u.expression, <<"x">>)
  \/ thrown # "Segfault" /\ \E c \in GuessColumns : Min(Len(nodes), c)
  \/ thrown # "Segfault" /\ \E c \in {"d", "f", "o"} : Max(Len(nodes), c)
  \/ thrown # "Segfault" /\ \E c \in {"vf", "vi", "hv"} : Mean(Len(nodes), c)
  \/ thrown # "Segfault" /\ \E c \in {"x", "f", "o", "h"} : Histo1D(Len(nodes), c, 0, 1)

SpecGuess == InitGuess /\ [][NextGuess]_vars

\* -------------------------------------------------------------- histograms
\* Programs that book, on the main frame, one-, two- and three-dimensional
\* histograms whose axes have the limits 0 and 1, or equal limits, 0 and 0
\* or 2 and 2.
AxisLimits == {<<0, 1>>, <<0, 0>>, <<2, 2>>}

InitHisto == Constructed(TablePrefix(MaxRows), 1)

NextHisto ==
  \/ \E x \in AxisLimits : Histo1D(0, "x", x[1], x[2])
  \/ \E x, y \in AxisLimits :
        Histo2D(0, TH2F(x[1], x[2], y[1], y[2]), "x", "d")
  \/ \E x, y, z \in AxisLimits :
        Histo3D(0, TH3F(x[1], x[2], y[1], y[2], z[1], z[2]), "x", "d", "b")

SpecHisto == InitHisto /\ [][NextHisto]_vars

\* ------------------------------------------------------------ signed data
\* Programs that book Min and Max of x, on the whole tree or behind a
\* filter, on trees whose values are negative, zero or positive.
SignedValues == {-2, 0, 3}

RECURSIVE SignedTables(_)
SignedTables(n) ==
  IF n = 0 THEN {<<>>}
  ELSE {Append(t, v) : t \in SignedTables(n - 1), v \in SignedValues}

InitSigned ==
  \E t \in SignedTables(MaxRows), k \in 1..MaxSlots : Constructed(t, k)

NextSigned ==
  \/ nRuns = 0 /\ Filter(Len(nodes), "even", <<"x">>, "")
  \/ nRuns = 0 /\ Min(Len(nodes), "x")
  \/ nRuns = 0 /\ Max(Len(nodes), "x")
  \/ \E h \in 1..Len(fReadiness) : Get(h)
  \/ \E slot \in Slots : RunEntry(slot)
  \/ RunMerge
  \/ RunReady

SpecSigned == InitSigned /\ [][NextSigned]_vars

\* -------------------------------------------------------------- iteration
\* Programs that book Take actions behind an optional filter before the
\* first run, iterate on the collections with begin() and end(), read them
\* with Get, and let the TDataFrame go out of scope.
NextIter ==
  \/ pc = "idle" /\ nRuns = 0 /\ nodes = <<>> /\ Filter(0, "gt2", <<"x">>, "")
  \/ pc = "idle" /\ nRuns = 0 /\ Take(Len(nodes), "x")
  \/ \E h \in 1..Len(fReadiness) : begin(h)
  \/ \E h \in 1..Len(fReadiness) : end(h)
  \/ \E h \in 1..Len(fReadiness) : Get(h)
  \/ \E slot \in Slots : RunEntry(slot)
  \/ RunMerge
  \/ RunReady
  \/ Destroy

SpecIter == Init /\ [][NextIter]_vars

\* --------------------------------------------------------- failed bookings
\* Programs on a TDataFrame with or without a default branch whose
\* chain-building calls succeed or fail: branch names left out, the name of a
\* temporary branch in use, a branch whose type cannot be guessed, a
\* histogram without axis limits, the TDataFrame out of scope.
InitFail ==
  \E defaults \in {<<>>, <<"x">>} : ConstructedWith(TablePrefix(MaxRows), 1, defaults)

FailNames == {"", "x"}

FailLimits == {<<0, 1>>, <<0, 0>>}

\* no histogram is booked: the event loop of these programs fills none
NoHistogram == \A i \in DOMAIN fBookedActions : fBookedActions[i].kind \notin {"fill", "fillTO"}

\* the chain-building calls
ChainCall ==
  \/ \E b \in FailNames : Filter(Len(nodes), "gt2", <<b>>, "")
  \/ \E n \in {"x", "y"}, b \in FailNames : AddBranch(Len(nodes), n, "dbl", <<b>>)
  \/ \E b \in FailNames : Reduce(Len(nodes), "sum", b, 0)
  \/ \E b \in FailNames : Take(Len(nodes), b)
  \/ Count(Len(nodes))
  \/ \E b \in FailNames \cup {"f"} : Min(Len(nodes), b)
  \/ \E b \in FailNames \cup {"f"} : Max(Len(nodes), b)
  \/ \E b \in FailNames \cup {"f"} : Mean(Len(nodes), b)
  \/ \E b \in FailNames \cup {"f"} : Histo1D(Len(nodes), b, 0, 1)
  \/ \E b \in FailNames, l \in FailLimits :
        Histo2D(Len(nodes), TH2F(l[1], l[2], 0, 1), b, b)
  \/ \E b \in FailNames, l \in FailLimits :
        Histo3D(Len(nodes), TH3F(l[1], l[2], 0, 1, 0, 1), b, b, b)
  \/ NoHistogram /\ \E b \in FailNames : Foreach(Len(nodes), "visit", <<b>>)

NextFail ==
  \/ nRuns = 0 /\ ChainCall
  \/ NoHistogram /\ \E h \in 1..Len(fReadiness) : Get(h)
  \/ \E slot \in Slots : RunEntry(slot)
  \/ RunMerge
  \/ RunReady
  \/ Destroy

SpecFail == InitFail /\ [][NextFail]_vars

\* ---------------------------------------------------------- RNTupleWriter
\* the calls user code makes on a writer or a reader before it lets go of it
MaxCalls == 5

\* the number of entries after which Fill commits a cluster
kDefaultClusterSizeEntries == 2

\* the fields of the models writers are created with (field zero excluded)
WriterModels == {<<>>, <<"pt">>, <<"pt", "eta">>}

\* field.Flush() and field.CommitCluster() for every field of the model
RECURSIVE FlushAndCommit(_)
FlushAndCommit(fields) ==
  IF fields = <<>> THEN <<>>
  ELSE <<[op |-> "Flush", arg |-> Head(fields)],
         [op |-> "FieldCommitCluster", arg |-> Head(fields)]>>
       \o FlushAndCommit(Tail(fields))

\* a CommitCluster that commits whether or not entries were written
CommitCluster_Always(w, sink) ==
  [writer |-> [w EXCEPT !.fLastCommitted = w.fNEntries],
   fSink  |-> sink \o FlushAndCommit(w.fModel)
                   \o <<[op |-> "CommitCluster", arg |-> w.fNEntries]>>]

\* RNTupleWriter::CommitCluster on writer w whose sink received `sink`
CommitCluster(w, sink) ==
  IF w.fNEntries = w.fLastCommitted THEN [writer |-> w, fSink |-> sink]
  ELSE [writer |-> [w EXCEPT !.fLastCommitted = w.fNEntries],
        fSink  |-> sink \o FlushAndCommit(w.fModel)
                        \o <<[op |-> "CommitCluster", arg |-> w.fNEntries]>>]

\* RNTupleWriter::RNTupleWriter(model, sink)
InitWriter ==
  /\ \E model \in WriterModels :
        writer = [state |-> "open", fModel |-> model,
                  fClusterSizeEntries |-> kDefaultClusterSizeEntries,
                  fLastCommitted |-> 0, fNEntries |-> 0]
  /\ fSink = <<[op |-> "Create", arg |-> ""]>>
  /\ reader = NoReader
  /\ output = NoOutput
  /\ api = <<>>
  /\ NoFrame

\* RNTupleWriter::Fill: the entry is appended to the fields, and a cluster is
\* committed every fClusterSizeEntries entries
Fill ==
  /\ writer.state = "open"
  /\ Len(api) < MaxCalls
  /\ LET w == [writer EXCEPT !.fNEntries = @ + 1]
         c == IF w.fNEntries % w.fClusterSizeEntries = 0
              THEN CommitCluster(w, fSink)
              ELSE [writer |-> w, fSink |-> fSink]
     IN writer' = c.writer /\ fSink' = c.fSink
  /\ api' = Append(api, "Fill")
  /\ UNCHANGED <<frame, reader, output>>

\* user code calls RNTupleWriter::CommitCluster
CallCommitCluster ==
  /\ writer.state = "open"
  /\ Len(api) < MaxCalls
  /\ LET c == CommitCluster(writer, fSink)
     IN writer' = c.writer /\ fSink' = c.fSink
  /\ api' = Append(api, "CommitCluster")
  /\ UNCHANGED <<frame, reader, output>>

\* a destructor that commits the dataset without committing the last cluster
DestroyWriter_DatasetOnly ==
  /\ writer.state = "open"
  /\ writer' = [writer EXCEPT !.state = "destroyed"]
  /\ fSink' = Append(fSink, [op |-> "CommitDataset", arg |-> ""])
  /\ api' = Append(api, "~RNTupleWriter")
  /\ UNCHANGED <<frame, reader, output>>

\* RNTupleWriter::~RNTupleWriter: CommitCluster(); fSink->CommitDataset()
DestroyWriter ==
  /\ writer.state = "open"
  /\ LET c == CommitCluster(writer, fSink)
     IN /\ writer' = [c.writer EXCEPT !.state = "destroyed"]
        /\ fSink' = Append(c.fSink, [op |-> "CommitDataset", arg |-> ""])
  /\ api' = Append(api, "~RNTupleWriter")
  /\ UNCHANGED <<frame, reader, output>>

NextWriter ==
  \/ Fill
  \/ CallCommitCluster
  \/ DestroyWriter

SpecWriter == InitWriter /\ [][NextWriter]_vars

\* ---------------------------------------------------------- RNTupleReader
\* the model user code opens a reader with
UserModel == [origin |-> "user", n |-> 0]

\* a page source attached, nothing else asked of it
Attached == [NoSource EXCEPT !.attached = TRUE]

\* RNTupleReader::ConnectModel on reader r: the fields of the model are
\* connected to the page source
ConnectModel(r, model) == [r EXCEPT !.fSource.connected = Append(@, model)]

\* a GetModel that generates and connects a model at every call
GetModel_Regenerate(r) ==
  LET model == [origin |-> "descriptor", n |-> r.fSource.generated + 1]
  IN ConnectModel([r EXCEPT !.fModel = <<model>>, !.fSource.generated = @ + 1],
                  model)

\* RNTupleReader::GetModel on reader r: the reader afterwards, whose fModel
\* is the model returned
GetModel(r) ==
  IF r.fModel = <<>>
  THEN LET model == [origin |-> "descriptor", n |-> r.fSource.generated + 1]
       IN ConnectModel([r EXCEPT !.fModel = <<model>>, !.fSource.generated = @ + 1],
                       model)
  ELSE r

\* RNTupleReader::Clone: a reader without a model on a clone of the source
Clone(r) == [state |-> "open", fModel |-> <<>>, fSource |-> Attached,
             fDisplayReader |-> <<>>]

\* RNTupleReader::GetDisplayReader on reader r: the reader afterwards, whose
\* fDisplayReader is the reader returned
GetDisplayReader(r) ==
  IF r.fDisplayReader = <<>>
  THEN [r EXCEPT !.fDisplayReader = <<Clone(r)>>, !.fSource.cloned = @ + 1]
  ELSE r

\* RNTupleReader::LoadEntry on reader r
LoadEntry(r, index) == [r EXCEPT !.fSource.loaded = Append(@, index)]

\* the JSON of entry `index` read with model `model`
EntryJSON(index, model) == [json |-> "{...}", index |-> index, model |-> model]

EmptyJSON == [json |-> "{}", index |-> -1, model |-> <<>>]

\* RNTupleReader::Show on reader r: the reader afterwards and the output
Show(r, index, format) ==
  IF format = "kCompleteJSON"
  THEN LET d == GetModel(GetDisplayReader(r).fDisplayReader[1])
       IN [reader |-> [GetDisplayReader(r) EXCEPT
                          !.fDisplayReader = <<LoadEntry(d, index)>>],
           output |-> EntryJSON(index, d.fModel)]
  ELSE \* kCurrentModelJSON
       IF r.fModel = <<>> THEN [reader |-> r, output |-> EmptyJSON]
       ELSE [reader |-> LoadEntry(r, index), output |-> EntryJSON(index, r.fModel)]

\* RNTupleReader::PrintInfo on reader r: the summary generates a model of
\* its own from the descriptor and does not connect it
PrintInfo(r, what) ==
  IF what = "kSummary" THEN [r EXCEPT !.fSource.generated = @ + 1] ELSE r

\* RNTupleReader::RNTupleReader(source) and RNTupleReader(model, source)
InitReader ==
  /\ \/ reader = [state |-> "open", fModel |-> <<>>, fSource |-> Attached,
                  fDisplayReader |-> <<>>]
     \/ reader = ConnectModel([state |-> "open", fModel |-> <<UserModel>>,
                               fSource |-> Attached, fDisplayReader |-> <<>>],
                              UserModel)
  /\ output = NoOutput
  /\ api = <<>>
  /\ writer = NoWriter
  /\ fSink = <<>>
  /\ NoFrame

Indices == {0, 1}

\* user code calls GetModel
CallGetModel ==
  /\ reader.state = "open"
  /\ Len(api) < MaxCalls
  /\ reader' = GetModel(reader)
  /\ api' = Append(api, <<"GetModel">>)
  /\ UNCHANGED <<frame, writer, fSink, output>>

\* user code calls Show
CallShow(index, format) ==
  /\ reader.state = "open"
  /\ Len(api) < MaxCalls
  /\ reader' = Show(reader, index, format).reader
  /\ output' = Show(reader, index, format).output
  /\ api' = Append(api, <<"Show", index, format>>)
  /\ UNCHANGED <<frame, writer, fSink>>

\* user code calls PrintInfo
CallPrintInfo(what) ==
  /\ reader.state = "open"
  /\ Len(api) < MaxCalls
  /\ reader' = PrintInfo(reader, what)
  /\ api' = Append(api, <<"PrintInfo", what>>)
  /\ UNCHANGED <<frame, writer, fSink, output>>

NextReader ==
  \/ CallGetModel
  \/ \E index \in Indices, format \in {"kCurrentModelJSON", "kCompleteJSON"} :
        CallShow(index, format)
  \/ \E what \in {"kSummary", "kStorageDetails", "kMetrics"} : CallPrintInfo(what)

SpecReader == InitReader /\ [][NextReader]_vars

\* ------------------------------------------------------------- scenarios
\* The programs of scenarios S1 and S5, each on its own table:
\*   S1  Filter(x > 2).Count()                                  on x = 1..5
\*   S5  Filter(even, {"x"}, "even").Filter(big, {"x"}, "big").Count()
\*                                                              on x = 1..10
\* followed by dereferences of the result and by Report calls on any node.
S1Rows == Iota(5)

S5Rows == Iota(10)

ScenarioFilters(table) ==
  IF table = S5Rows
  THEN <<[f |-> "even", bl |-> <<"x">>, name |-> "even"],
         [f |-> "big", bl |-> <<"x">>, name |-> "big"]>>
  ELSE <<[f |-> "gt2", bl |-> <<"x">>, name |-> ""] >>

InitScen == \E k \in 1..MaxSlots, t \in {S1Rows, S5Rows} : Constructed(t, k)

\* the next filter of the scenario, booked on the node booked last
BookScenarioFilter ==
  LET script == ScenarioFilters(rows)
      i      == Len(nodes) + 1
  IN /\ fReadiness = <<>>
     /\ i <= Len(script)
     /\ Filter(i - 1, script[i].f, script[i].bl, script[i].name)

\* the Count of the scenario, booked on the last filter
BookScenarioCount ==
  /\ fReadiness = <<>>
  /\ Len(nodes) = Len(ScenarioFilters(rows))
  /\ Count(Len(nodes))

NextScen ==
  \/ BookScenarioFilter
  \/ BookScenarioCount
  \/ \E h \in 1..Len(fReadiness) : Get(h)
  \/ \E slot \in Slots : RunEntry(slot)
  \/ RunMerge
  \/ RunReady
  \/ \E p \in 0..Len(nodes) : Report(p)

SpecScen == InitScen /\ [][NextScen]_vars

\* ------------------------------------------------------------- properties
\* What the properties compare the program with is computed from the table
\* and the shape of the graph alone, never from the per-slot state.

\* the value of column c at entry e
RECURSIVE ColumnValue(_, _)
ColumnValue(c, e) ==
  IF c \in PhysicalBranches THEN rows[e + 1]
  ELSE LET b == nodes[fBookedBranches[c]]
       IN Expr(b.fExpression, ColumnValue(b.fBranches[1], e))

\* the filters on the chain from the root to node p, p included
RECURSIVE Upstream(_)
Upstream(p) ==
  IF p = 0 THEN {}
  ELSE (IF nodes[p].kind = "filter" THEN {p} ELSE {}) \cup Upstream(nodes[p].fPrevData)

\* the predicate of filter id holds at entry e
Holds(id, e) == Pred(nodes[id].fFilter, ColumnValue(nodes[id].fBranches[1], e))

\* entry e passes every filter on the chain down to node p
PassesAll(p, e) == \A id \in Upstream(p) : Holds(id, e)

Entries == 0..(Len(rows) - 1)

Proxies == DOMAIN fReadiness

Filters == {id \in NodeIds : nodes[id].kind = "filter"}

Branches == {id \in NodeIds : nodes[id].kind = "branch"}

\* C1 (lazy discipline): as long as no result proxy has been dereferenced,
\* whatever filters, temporary branches and lazy actions have been booked,
\* the event loop has not started, no user callable has been invoked, the
\* tree has not been read, no result has been written and every proxy is
\* not ready.
C1_LazyDiscipline ==
  ~demanded =>
    /\ pc = "idle"
    /\ nRuns = 0
    /\ ~fHasRunAtLeastOnce
    /\ calls = <<>>
    /\ allocs = <<>>
    /\ evals = <<>>
    /\ ~sourceRead
    /\ \A h \in Proxies : ~fReadiness[h] /\ fObjPtr[h] = OpInit(proxyInfo[h].kind)

\* a filter on a temporary branch and a lazy action are booked, nothing is
\* dereferenced
C1_Witness ==
  /\ ~demanded
  /\ Filters # {}
  /\ Branches # {}
  /\ Proxies # {}

\* C2 (first dereference runs once): an event loop starts only in a step that
\* dereferences a proxy that is not ready, from outside any event loop, and
\* that step starts exactly one; the loop runs every action booked so far;
\* when it is over every proxy booked before it is merged and ready, so that
\* dereferencing any of them starts nothing.
C2_RunStarts ==
  nRuns' # nRuns =>
    /\ nRuns' = nRuns + 1
    /\ pc = "idle" /\ pc' = "loop"
    /\ demanded'
    /\ getting' \in Proxies /\ ~fReadiness[getting']
    /\ {fBookedActions'[i].res : i \in DOMAIN fBookedActions'} =
          {h \in Proxies : ~fReadiness[h]}

C2_AfterRun ==
  /\ pc # "idle" => getting \in Proxies /\ proxyInfo[getting].bookedAt < nRuns
  /\ pc = "idle" =>
       \A h \in Proxies :
          /\ proxyInfo[h].bookedAt < nRuns => fReadiness[h] /\ proxyInfo[h].merged
          /\ proxyInfo[h].bookedAt = nRuns => ~fReadiness[h]

C2_FirstDereference == []C2_AfterRun /\ [][C2_RunStarts]_vars

\* one run has made two proxies ready
C2_Witness ==
  /\ pc = "idle"
  /\ nRuns = 1
  /\ Cardinality(Proxies) >= 2
  /\ \A h \in Proxies : fReadiness[h]

\* C3 (ready once): the readiness of a proxy starts false, changes only at
\* the end of an event loop, and once true stays true through every later
\* booking, run and dereference.
C3_Step ==
  /\ \A h \in Proxies :
        /\ h \in DOMAIN fReadiness'
        /\ fReadiness[h] => fReadiness'[h]
        /\ fReadiness'[h] # fReadiness[h] => pc = "merged" /\ pc' = "idle"
  /\ \A h \in DOMAIN fReadiness' \ Proxies : ~fReadiness'[h]

C3_ReadyOnce == [][C3_Step]_vars

\* a proxy made ready by the first run is still ready while a second run is
\* going on for a proxy booked later
C3_Witness ==
  /\ nRuns = 2
  /\ pc = "loop"
  /\ \E h \in Proxies : fReadiness[h]
  /\ \E h \in Proxies : ~fReadiness[h]

\* C4 (results written by the merge only): the result object of a proxy
\* keeps its initial value until the merge; the merge happens when every
\* entry has been processed and writes the merge of the per-slot partial
\* results; a proxy is ready only after its result has been merged.
C4_MergeOnly ==
  /\ \A h \in Proxies :
        /\ ~proxyInfo[h].merged => fObjPtr[h] = OpInit(proxyInfo[h].kind)
        /\ fReadiness[h] => proxyInfo[h].merged
  /\ pc = "loop" => retired = <<>>
  /\ \A h \in DOMAIN retired :
        /\ pc = "merged"
        /\ retired[h].entries = Len(rows)
        /\ proxyInfo[h].merged
        /\ ~fReadiness[h]
        /\ fObjPtr[h] = OpMerge(proxyInfo[h].kind, retired[h].partial)

\* the merge has just written a result that differs from its initial value,
\* out of the partial results of two slots
C4_Witness ==
  /\ pc = "merged"
  /\ \E h \in DOMAIN retired :
        /\ fObjPtr[h] # OpInit(proxyInfo[h].kind)
        /\ \A s \in DOMAIN retired[h].partial :
              retired[h].partial[s] # OpInit(proxyInfo[h].kind)
        /\ Len(retired[h].partial) >= 2

\* C5 (filter at most once): in the processing of one entry on one slot the
\* predicate of a filter is called at most once, however many times
\* CheckFilters is called on the filter, and the filter then holds the entry
\* and the result every later call for that entry returns.
C5_FilterAtMostOnce ==
  /\ \A k \in DOMAIN calls :
        k[1] = "filter" => calls[k] = 1 /\ <<k[3], k[4]>> \in visited
  /\ \A k \in DOMAIN asked :
        LET id == k[1]  slot == k[2]  entry == k[3]
        IN /\ Times(calls, <<"filter", id, slot, entry>>) <= 1
           /\ nodes[id].fLastCheckedEntry[slot + 1] = entry
           /\ nodes[id].fLastResult[slot + 1] = PassesAll(id, entry)

\* CheckFilters was called twice on a filter for one entry and the predicate
\* was called once
C5_Witness ==
  \E k \in DOMAIN asked :
     /\ asked[k] >= 2
     /\ Times(calls, <<"filter", k[1], k[2], k[3]>>) = 1

\* C6 (temporary branch at most once): in the processing of one entry on one
\* slot the expression of a temporary branch is evaluated at most once, every
\* consumer of the branch is handed the same object, which is the one the
\* branch caches for that entry, and the cached object of a slot is replaced
\* only when the entry last checked on that slot changes.
C6_Cached ==
  /\ \A k \in DOMAIN calls :
        k[1] = "branch" => calls[k] = 1 /\ <<k[3], k[4]>> \in visited
  /\ \A k \in DOMAIN served :
        LET b == k[1]  slot == k[2]  entry == k[3]
        IN /\ \A k2 \in DOMAIN served :
                 (k2[1] = b /\ k2[2] = slot /\ k2[3] = entry) => k2[4] = k[4]
           /\ nodes[b].fLastCheckedEntry[slot + 1] = entry
           /\ nodes[b].fLastResultPtr[slot + 1].id = k[4]
           /\ nodes[b].fLastResultPtr[slot + 1].val = ColumnValue(nodes[b].fName, entry)

C6_Replaced ==
  \A b \in Branches :
     \A s \in DOMAIN nodes[b].fLastResultPtr :
        nodes'[b].fLastResultPtr[s] # nodes[b].fLastResultPtr[s]
           => nodes'[b].fLastCheckedEntry[s] # nodes[b].fLastCheckedEntry[s]

C6_BranchAtMostOnce == []C6_Cached /\ [][C6_Replaced]_vars

\* two consumers were handed the object of a temporary branch for one entry
C6_Witness ==
  \E k \in DOMAIN served :
     /\ served[k] >= 2
     /\ Times(calls, <<"branch", k[1], k[2], k[3]>>) = 1

\* C7 (short circuit): the predicate of a filter is called only on entries
\* on which the predicate of every filter upstream of it holds; asked about
\* an entry that a filter upstream rejects, the filter does not call its
\* predicate and caches false for the entry.
C7_ShortCircuit ==
  /\ \A k \in DOMAIN calls :
        k[1] = "filter" => PassesAll(nodes[k[2]].fPrevData, k[4])
  /\ \A k \in DOMAIN asked :
        LET id == k[1]  slot == k[2]  entry == k[3]
        IN ~PassesAll(nodes[id].fPrevData, entry) =>
              /\ Times(calls, <<"filter", id, slot, entry>>) = 0
              /\ nodes[id].fLastCheckedEntry[slot + 1] = entry
              /\ nodes[id].fLastResult[slot + 1] = FALSE

\* a filter was asked about an entry its parent filter rejects, although the
\* filter's own predicate holds on it
C7_Witness ==
  \E k \in DOMAIN asked :
     /\ ~PassesAll(nodes[k[1]].fPrevData, k[3])
     /\ Holds(k[1], k[3])

\* the filter is consulted by an action of the current run
Consulted(id, actions) ==
  \E i \in DOMAIN actions : id \in Upstream(actions[i].fPrevData)

Seen(id, s) == nodes[id].fAccepted[s] + nodes[id].fRejected[s]

\* C8 (filter counters): for every filter and slot fAccepted + fRejected is
\* the number of calls of the predicate on that slot in the run; processing
\* an entry on a slot adds one to the sum for that slot if the filter is
\* consulted and every filter upstream accepts the entry, and nothing
\* otherwise; after the loop the sum over the slots is the number of entries
\* that pass every upstream filter.
C8_Counted ==
  /\ \A id \in Filters :
        \A s \in DOMAIN nodes[id].fAccepted :
           Seen(id, s) = Times(evals, <<id, s - 1>>)
  /\ pc = "merged" =>
        \A id \in Filters :
           SumSeq(nodes[id].fAccepted) + SumSeq(nodes[id].fRejected) =
              IF \E h \in DOMAIN retired : id \in Upstream(proxyInfo[h].fPrevData)
              THEN Cardinality({e \in Entries : PassesAll(nodes[id].fPrevData, e)})
              ELSE 0

C8_Step ==
  (pc = "loop" /\ pc' = "loop") =>
     \A id \in Filters :
        \A s \in Slots :
           (nodes'[id].fAccepted[s + 1] + nodes'[id].fRejected[s + 1]) - Seen(id, s + 1) =
              IF /\ <<s, nextEntry>> \in visited'
                 /\ Consulted(id, fBookedActions)
                 /\ PassesAll(nodes[id].fPrevData, nextEntry)
              THEN 1 ELSE 0

C8_FilterCounters == []C8_Counted /\ [][C8_Step]_vars

\* after the loop, a filter below another filter has evaluated some entries
\* and has been spared an entry that the filter upstream rejected
C8_Witness ==
  /\ pc = "merged"
  /\ \E id \in Filters :
        /\ SumSeq(nodes[id].fAccepted) + SumSeq(nodes[id].fRejected) >= 1
        /\ \E e \in Entries : ~PassesAll(nodes[id].fPrevData, e)
        /\ \E h \in DOMAIN retired : id \in Upstream(proxyInfo[h].fPrevData)

\* the state of scenario S5 after the run: "even" has seen evenAll entries
\* and accepted evenPass, "big" has seen bigAll and accepted bigPass, and a
\* Report on the last node or on the data frame has printed nothing else
\* than the line of "even" followed by the line of "big" with these counts
ScenarioS5(evenPass, evenAll, bigPass, bigAll) ==
  (rows = S5Rows /\ fHasRunAtLeastOnce) =>
     /\ nodes[1].fName = "even" /\ nodes[2].fName = "big"
     /\ SumSeq(nodes[1].fAccepted) = evenPass
     /\ SumSeq(nodes[1].fAccepted) + SumSeq(nodes[1].fRejected) = evenAll
     /\ SumSeq(nodes[2].fAccepted) = bigPass
     /\ SumSeq(nodes[2].fAccepted) + SumSeq(nodes[2].fRejected) = bigAll
     /\ (reportOut # <<>> /\ ~reportOut.warning /\ reportOut.node # 1) =>
           reportOut.lines = <<[name |-> "even", pass |-> evenPass, all |-> evenAll],
                               [name |-> "big", pass |-> bigPass, all |-> bigAll]>>

\* C9 as stated (scenario S5): filters "even" then "big" then an action over
\* x = 1..10: after the run "even" has seen 10 entries and accepted 5, "big"
\* has seen 5 and accepted 2, and Report lists "even" before "big" with these
\* counts.
C9_AsStated == ScenarioS5(5, 10, 2, 5)

\* C9 as amended (scenario S5): as above, but "big" has accepted 3 of the 5
\* entries it has seen (6, 8 and 10 are the even values above 5).
C9_ScenarioS5 == ScenarioS5(5, 10, 3, 5)

\* the report of scenario S5 printed on the last filter, after a run on as
\* many slots as there can be
C9_Witness ==
  /\ rows = S5Rows
  /\ fNSlots = MaxSlots
  /\ reportOut # <<>>
  /\ reportOut.node = 2
  /\ Len(reportOut.lines) = 2

\* C10 (Count): the result of a Count proxy that is ready is the number of
\* entries on which the predicate of every filter upstream of the node it
\* was booked on holds; booked on the data frame it is the number of entries.
C10_Count ==
  \A h \in Proxies :
     (fReadiness[h] /\ proxyInfo[h].kind = "count") =>
        /\ fObjPtr[h] = Cardinality({e \in Entries : PassesAll(proxyInfo[h].fPrevData, e)})
        /\ proxyInfo[h].fPrevData = 0 => fObjPtr[h] = Len(rows)

\* a Count below a filter that accepts some entries and rejects others is
\* ready
C10_Witness ==
  \E h \in Proxies :
     /\ fReadiness[h]
     /\ proxyInfo[h].kind = "count"
     /\ proxyInfo[h].fPrevData # 0
     /\ fObjPtr[h] > 0
     /\ fObjPtr[h] < Len(rows)

\* -------------------------------------------------------------------- C11
\* The values of column c on the entries that pass every filter upstream of
\* node p, whatever slot processed them: their number, their sum, their
\* least and their greatest.
PassingValues(p, c) == {ToDouble(ColumnValue(c, e)) : e \in {e \in Entries : PassesAll(p, e)}}

NPassing(p) == Cardinality({e \in Entries : PassesAll(p, e)})

RECURSIVE SumPassing(_, _, _)
SumPassing(p, c, n) ==
  IF n = 0 THEN 0
  ELSE SumPassing(p, c, n - 1) +
       (IF PassesAll(p, n - 1) THEN ToDouble(ColumnValue(c, n - 1)) ELSE 0)

Least(S) == CHOOSE v \in S : \A w \in S : v <= w

Greatest(S) == CHOOSE v \in S : \A w \in S : w <= v

\* what the aggregation of proxy h is on the whole table
Aggregate(h) ==
  LET i == proxyInfo[h]
  IN CASE i.kind = "count" -> NPassing(i.fPrevData)
       [] i.kind = "min"   -> Least(PassingValues(i.fPrevData, i.fBranches[1]) \cup {DoubleMax})
       [] i.kind = "max"   -> Greatest(PassingValues(i.fPrevData, i.fBranches[1]) \cup {DoubleMin})
       [] i.kind = "mean"  -> [num |-> SumPassing(i.fPrevData, i.fBranches[1], Len(rows)),
                               den |-> NPassing(i.fPrevData)]

\* C11: once merged, the result of a Count, Min, Max or Mean is the
\* aggregate of the passing rows of the table, the same for every number of
\* slots and every assignment of rows to slots; the result of a Mean is the
\* sum of the slots' sums over the sum of the slots' counts.
C11_ParallelDeterminism ==
  \A h \in Proxies :
     proxyInfo[h].merged /\ proxyInfo[h].kind \in {"count", "min", "max", "mean"} =>
        fObjPtr[h] = Aggregate(h)

\* A Mean was merged from two slots that processed different numbers of
\* passing rows, where the mean of the slots' means is another number.
C11_Witness ==
  /\ pc = "merged"
  /\ \E h \in DOMAIN retired :
        /\ retired[h].kind = "mean"
        /\ Len(retired[h].partial) = 2
        /\ retired[h].partial[1].count = 2
        /\ retired[h].partial[2].count = 1
        /\ 3 * (retired[h].partial[1].sum + 2 * retired[h].partial[2].sum)
               # 4 * (retired[h].partial[1].sum + retired[h].partial[2].sum)
        /\ fObjPtr[h] = Aggregate(h)

\* -------------------------------------------------------------------- C12
\* the fold with f, from init, of the values of column c on the first n
\* entries that pass every filter upstream of node p: what Reduce yields on
\* one slot
RECURSIVE FoldPassing(_, _, _, _, _)
FoldPassing(f, init, p, c, n) ==
  IF n = 0 THEN init
  ELSE LET r == FoldPassing(f, init, p, c, n - 1)
       IN IF PassesAll(p, n - 1)
          THEN ReduceFun(f, r, ToDouble(ColumnValue(c, n - 1)))
          ELSE r

\* the result of the Reduce of proxy h is the one a single slot yields
SameAsOneSlot(h) ==
  LET i == proxyInfo[h]
  IN fObjPtr[h] = FoldPassing(i.fun, i.init, i.fPrevData, i.fBranches[1], Len(rows))

\* init is a neutral element of f on the doubles a Reduce of the table meets
Neutral(f, init) ==
  \A v \in 0..ToDouble(SumSeq(rows)) :
     ReduceFun(f, init, v) = v /\ ReduceFun(f, v, init) = v

ValuesAt(c, es) == [k \in DOMAIN es |-> ColumnValue(c, es[k])]

Ascending(es) == \A j, k \in DOMAIN es : j < k => es[j] < es[k]

\* the partial collection of every slot of a booked Take holds the values of
\* the rows the slot took, in ascending row index
C13_Partials ==
  \A i \in DOMAIN fBookedActions :
     LET a == fBookedActions[i]
     IN a.kind = "take" =>
          \A s \in 1..fNSlots :
             /\ Ascending(a.took[s])
             /\ a.partial[s] = ValuesAt(a.fBranches[1], a.took[s])

\* a slot that is handed a row takes it in every Take whose upstream filters
\* the row passes, and in no other; the other slots take nothing
C13_Step ==
  \A s \in Slots :
     (pc = "loop" /\ visited' = {<<s, nextEntry>>} /\ nextEntry' = nextEntry + 1) =>
        \A i \in DOMAIN fBookedActions :
           LET a == fBookedActions[i]
               b == fBookedActions'[i]
           IN a.kind = "take" =>
                \A t \in 1..fNSlots :
                   b.took[t] = IF t = s + 1 /\ PassesAll(a.fPrevData, nextEntry)
                               THEN Append(a.took[t], nextEntry)
                               ELSE a.took[t]

\* the result of a merged Take is the concatenation of the slots' partial
\* collections in increasing slot order
C13_Merged ==
  pc = "merged" =>
     \A h \in DOMAIN retired :
        retired[h].kind = "take" =>
           /\ fObjPtr[h] = Concat(retired[h].partial)
           /\ fObjPtr[h] = Concat([s \in 1..fNSlots |->
                               ValuesAt(proxyInfo[h].fBranches[1], retired[h].took[s])])

\* C13: the result of Take is the concatenation of the per-slot partial
\* collections in increasing slot order; the partial of a slot holds, in
\* ascending row index, exactly the rows of that slot that passed all the
\* upstream filters.
C13_TakeOrder == [](C13_Partials /\ C13_Merged) /\ [][C13_Step]_vars

\* A filtered Take was merged from two slots that both took rows, the rows
\* of slot 1 coming before those of slot 0 in the table, and a row was
\* rejected.
C13_Witness ==
  /\ pc = "merged"
  /\ fNSlots = 2
  /\ \E h \in DOMAIN retired :
        /\ retired[h].kind = "take"
        /\ retired[h].fPrevData # 0
        /\ retired[h].took[1] # <<>>
        /\ retired[h].took[2] # <<>>
        /\ retired[h].took[2][1] < retired[h].took[1][1]
        /\ Len(fObjPtr[h]) = 2
        /\ Len(fObjPtr[h]) < Len(rows)

\* -------------------------------------------------------------------- C14
\* the provider handed slot 0 a range of first rows and slot 1 the range of
\* the rows after them
Slot0First(h) ==
  \A j \in DOMAIN retired[h].took[1], k \in DOMAIN retired[h].took[2] :
     retired[h].took[1][j] < retired[h].took[2][k]

\* C14 as stated: in scenario S6 the merged result of the Take is the table,
\* however the provider hands the rows to the two slots.
C14_AsStated ==
  pc = "merged" => \A h \in DOMAIN retired : fObjPtr[h] = Table

\* C14: in scenario S6 the merged result of the Take is the rows of slot 0
\* followed by the rows of slot 1, each in input order; it is the table when
\* the provider handed slot 0 a range of first rows and slot 1 the rest.
C14_ScenarioS6 ==
  pc = "merged" =>
     \A h \in DOMAIN retired :
        /\ fObjPtr[h] = ValuesAt("x", retired[h].took[1] \o retired[h].took[2])
        /\ Range(retired[h].took[1]) \cup Range(retired[h].took[2]) = Entries
        /\ Len(fObjPtr[h]) = Len(Table)
        /\ Slot0First(h) => fObjPtr[h] = Table

\* The Take of scenario S6 was merged after slot 0 was handed the first five
\* rows and slot 1 the last three.
C14_Witness ==
  /\ pc = "merged"
  /\ rows = Table
  /\ fNSlots = 2
  /\ \E h \in DOMAIN retired :
        /\ retired[h].took = <<<<0, 1, 2, 3, 4>>, <<5, 6, 7>>>>
        /\ fObjPtr[h] = <<3, 1, 4, 1, 5, 9, 2, 6>>

\* -------------------------------------------------------------------- C15
\* the booked actions of Foreach and ForeachSlot
Instant == {i \in DOMAIN fBookedActions : fBookedActions[i].kind = "foreach"}

\* an instant action is never booked while no run is going on: the booking
\* call has not returned
C15_RunsInside == pc = "idle" => Instant = {}

\* at the end of the loop of an instant action the user function has been
\* invoked once for every row that passes the upstream filters, and on no
\* other row
C15_InvokedOnce ==
  pc = "merged" /\ 0 \in DOMAIN retired =>
     LET es == Concat(retired[0].took)
     IN /\ \A j, k \in DOMAIN es : j # k => es[j] # es[k]
        /\ Range(es) = {e \in Entries : PassesAll(retired[0].fPrevData, e)}

\* the booking call of an instant action starts the run; when it returns,
\* every handle is ready; a call that books a handle starts no run and
\* returns the handle not ready
C15_Step ==
  /\ Len(fBookedActions') > Len(fBookedActions)
        /\ fBookedActions'[Len(fBookedActions')].kind = "foreach"
        => pc = "idle" /\ pc' = "loop" /\ nRuns' = nRuns + 1
  /\ pc = "merged" /\ 0 \in DOMAIN retired /\ pc' = "idle"
        => \A h \in DOMAIN fReadiness' : fReadiness'[h] /\ proxyInfo'[h].merged
  /\ Len(fReadiness') > Len(fReadiness)
        => /\ pc' = "idle" /\ nRuns' = nRuns
           /\ ~fReadiness'[Len(fReadiness')]
           /\ fBookedActions'[Len(fBookedActions')].kind # "foreach"

\* C15: Foreach and ForeachSlot book their action and run the event loop
\* inside the booking call, so that when they return the user function has
\* been invoked once for every row passing the upstream filters and every
\* handle booked before is ready; every other action only books and returns
\* a handle that is not ready.
C15_InstantActions == [](C15_RunsInside /\ C15_InvokedOnce) /\ [][C15_Step]_vars

\* The loop of a Foreach on a filtered node has ended: the function was
\* invoked on a row and not on another, and a Count was booked before.
C15_Witness ==
  /\ pc = "merged"
  /\ 0 \in DOMAIN retired
  /\ retired[0].kind = "foreach"
  /\ retired[0].fPrevData # 0
  /\ Len(Concat(retired[0].took)) = 1
  /\ \E h \in Proxies : proxyInfo[h].kind = "count" /\ ~fReadiness[h]

\* -------------------------------------------------------------------- C16
\* C16: once the engine has gone out of scope, a Get on a result handle
\* fails with EngineGone, whether the handle is ready or not.
C16_EngineGone ==
  pc = "gone" /\ getting # 0 => thrown = "EngineGone"

\* what the code does: after the engine has gone out of scope, a Get fails
\* with EngineGone exactly on a handle that is not ready; on a ready handle
\* it returns the result
C16_GoneGet ==
  pc = "gone" /\ getting # 0 =>
     (thrown = "EngineGone" <=> ~fReadiness[getting])

\* -------------------------------------------------------------------- C17
\* C17: a Report called on any node when the engine has never run fails
\* with the error NotRun. (Before the first run only Report sets `thrown`.)
C17_NotRun ==
  nRuns = 0 /\ reportOut # <<>> => thrown = "NotRun"

\* what the code does: a Report called before the first run prints the
\* warning that all reports are empty, prints no line and returns
C17_WarningOnly ==
  nRuns = 0 /\ reportOut # <<>> =>
     thrown = "" /\ reportOut.warning /\ reportOut.lines = <<>>

\* -------------------------------------------------------------------- C18
\* the named filters among the nodes of S with an id up to n, in booking
\* order (the ids of the nodes are given in booking order)
RECURSIVE NamedIn(_, _)
NamedIn(S, n) ==
  IF n = 0 THEN <<>>
  ELSE NamedIn(S, n - 1) \o
       (IF n \in S /\ nodes[n].kind = "filter" /\ nodes[n].fName # ""
        THEN <<n>> ELSE <<>>)

\* the stats of filter id
Stats(id) ==
  [name |-> nodes[id].fName,
   pass |-> SumSeq(nodes[id].fAccepted),
   all  |-> SumSeq(nodes[id].fAccepted) + SumSeq(nodes[id].fRejected)]

\* the filters a Report on node p is about
Scope(p) == IF p = 0 THEN Filters ELSE Upstream(p)

\* C18: after a run, Report on a node prints the stats of exactly the named
\* filters on the path from the root to that node, the node included, in
\* booking order; Report on the root prints all the named filters of the
\* graph in booking order.
C18_ReportScope ==
  reportOut # <<>> /\ ~reportOut.warning =>
     LET ids == NamedIn(Scope(reportOut.node), Len(nodes))
     IN reportOut.lines = [k \in DOMAIN ids |-> Stats(ids[k])]

\* After a run, Report on a node other than the root printed a line and left
\* out a named filter that is not on its path.
C18_Witness ==
  /\ reportOut # <<>>
  /\ ~reportOut.warning
  /\ reportOut.node # 0
  /\ reportOut.lines # <<>>
  /\ \E id \in Filters : nodes[id].fName # "" /\ id \notin Upstream(reportOut.node)

\* -------------------------------------------------------------------- C20
\* a run starts from the first entry, and a result that is ready keeps its
\* readiness and its value through every step
C20_Step ==
  /\ nRuns' # nRuns => nextEntry' = 0
  /\ \A h \in Proxies :
        fReadiness[h] => fReadiness'[h] /\ fObjPtr'[h] = fObjPtr[h]

\* a run merges after it has passed over all the entries; when it is over
\* every handle is ready, and a ready result is the aggregate of the table,
\* each row counted once
C20_Full ==
  /\ pc = "merged" => nextEntry = Len(rows)
  /\ pc = "idle" /\ nRuns > 0 /\ fBookedActions = <<>> =>
        \A h \in Proxies : fReadiness[h]
  /\ \A h \in Proxies : fReadiness[h] => fObjPtr[h] = Aggregate(h)

\* C20: a later run, triggered by an instant action or by the dereference
\* of a handle booked after the first run, passes over all the entries again
\* and raises the ready flags, and leaves every result that was ready with
\* the value it had.
C20_Idempotent == []C20_Full /\ [][C20_Step]_vars

\* A second run, triggered by a ForeachSlot, has passed over the entries
\* while a Count made ready by the first run holds a positive value.
C20_Witness ==
  /\ pc = "merged"
  /\ nRuns = 2
  /\ 0 \in DOMAIN retired
  /\ Len(Concat(retired[0].took)) > 0
  /\ \E h \in Proxies :
        /\ fReadiness[h]
        /\ proxyInfo[h].kind = "count"
        /\ proxyInfo[h].bookedAt = 0
        /\ fObjPtr[h] > 0

\* -------------------------------------------------------------------- C19
\* the exception of a user callable has propagated out of the run and out of
\* the dereference that triggered it
Propagated == thrown = "UserError" /\ pc = "idle"

\* the handles of the aborted run are not ready
LeftNotReady == \A h \in Range(fResProxyReadiness) : ~fReadiness[h]

\* the per-slot state of every node is destroyed: no slot of a filter or of
\* a temporary branch memoizes an entry or holds a cached value
PerSlotDestroyed ==
  \A id \in NodeIds :
     /\ \A s \in DOMAIN nodes[id].fLastCheckedEntry :
           nodes[id].fLastCheckedEntry[s] = -1
     /\ nodes[id].kind = "branch" =>
           \A s \in DOMAIN nodes[id].fLastResultPtr :
              nodes[id].fLastResultPtr[s] = NullPtr

\* the result of the predicate that threw is not recorded: the filter counts
\* one evaluation less than it made on the slot, none as rejected, and does
\* not memoize the entry
NotRecorded ==
  \A p \in visited : \A id \in Filters :
     LET s == p[1] + 1
     IN nodes[id].fFilter = "boom" /\ Times(calls, <<"filter", id, p[1], p[2]>>) > 0 =>
          /\ nodes[id].fLastCheckedEntry[s] # p[2]
          /\ nodes[id].fRejected[s] = 0
          /\ nodes[id].fAccepted[s] + 1 = Times(evals, <<id, p[1]>>)

\* C19: if a predicate throws on some (slot, row) during a run, the
\* exception propagates out of the run and of the dereference that triggered
\* it, every result handle is left not ready, the per-slot state is
\* destroyed, and the result of the failing filter is not recorded as false.
C19_UserFailure ==
  thrown = "UserError" =>
     Propagated /\ LeftNotReady /\ PerSlotDestroyed /\ NotRecorded

\* what the code does: the exception propagates, the handles are left not
\* ready and the failing result is not recorded, while the nodes keep the
\* per-slot state of the aborted run
C19_Abort ==
  thrown = "UserError" =>
     /\ Propagated /\ LeftNotReady /\ NotRecorded
     /\ fResProxyReadiness # <<>>
     /\ ~PerSlotDestroyed

\* the elements a node keeps for the slot read at index j
NodeSlotState(n, j) ==
  IF n.kind = "filter"
  THEN <<n.fLastCheckedEntry[j], n.fLastResult[j], n.fAccepted[j], n.fRejected[j]>>
  ELSE <<n.fLastCheckedEntry[j], n.fLastResultPtr[j]>>

\* the elements an action keeps for the slot read at index j
ActionSlotState(a, j) == <<a.partial[j], a.took[j]>>

\* during the loop every per-slot vector has one element per slot
C21_InRange ==
  pc = "loop" =>
    /\ \A i \in NodeIds :
          /\ DOMAIN nodes[i].fLastCheckedEntry = 1..fNSlots
          /\ nodes[i].kind = "filter" =>
                /\ DOMAIN nodes[i].fLastResult = 1..fNSlots
                /\ DOMAIN nodes[i].fAccepted = 1..fNSlots
                /\ DOMAIN nodes[i].fRejected = 1..fNSlots
          /\ nodes[i].kind = "branch" =>
                DOMAIN nodes[i].fLastResultPtr = 1..fNSlots
    /\ \A i \in DOMAIN fBookedActions :
          DOMAIN fBookedActions[i].partial = 1..fNSlots
    /\ \A v \in visited : v[1] \in Slots

\* an iteration of the loop is the work of one slot s in [0, nSlots): every
\* call of the iteration is made with s, every object it is served was made
\* by s, and the elements of the other slots are left as they were
C21_Step ==
  (pc = "loop" /\ nextEntry' # nextEntry) =>
    \E s \in Slots :
      /\ visited' = {<<s, nextEntry>>}
      /\ \A k \in DOMAIN asked' : k[2] = s
      /\ \A k \in DOMAIN calls' : k[3] = s
      /\ \A k \in DOMAIN served' : k[2] = s /\ k[4][2] = s
      /\ \A j \in (1..fNSlots) \ {s + 1} :
            /\ \A i \in NodeIds :
                  NodeSlotState(nodes'[i], j) = NodeSlotState(nodes[i], j)
            /\ \A i \in DOMAIN fBookedActions :
                  ActionSlotState(fBookedActions'[i], j) =
                     ActionSlotState(fBookedActions[i], j)

\* C21 (per-slot isolation): during the loop on the entries the worker of
\* slot s reads and writes only the element of index s of the per-slot
\* state of the nodes (the last entry, the last result and the counters of
\* a filter, the last entry and the cached value of a temporary branch, the
\* partial result of an action); every slot index is in [0, nSlots), so no
\* element is accessed by two workers.
C21_PerSlotIsolation == []C21_InRange /\ [][C21_Step]_vars

\* with two slots, each of them has evaluated a temporary branch and a filter
\* in the same run, and slot 1 has executed an action
C21_Witness ==
  /\ pc = "loop"
  /\ fNSlots = 2
  /\ \E i \in Branches : \A j \in 1..2 : nodes[i].fLastCheckedEntry[j] # -1
  /\ \E i \in Filters : \A j \in 1..2 : nodes[i].fAccepted[j] + nodes[i].fRejected[j] > 0
  /\ \E i \in DOMAIN fBookedActions :
        fBookedActions[i].partial[2] # OpSeed(fBookedActions[i].kind, fBookedActions[i].init)

\* -------------------------------------------------------------------- C22
\* the list fBranches is what the resolution policy gives a node of k columns
\* that is given bl
Resolved(fBranches, k, bl) ==
  IF ProvidedBranches(bl) = k THEN fBranches = bl
  ELSE /\ k <= Len(fDefaultBranches)
       /\ fBranches = SubSeq(fDefaultBranches, 1, k)

\* the filter or temporary branch the step booked, the action the step booked
BookedNode == nodes'[Len(nodes')]

BookedAction == fBookedActions'[Len(fBookedActions')]

\* C22 (column-name resolution): a chain-building call that books a node
\* with a callable of k columns and is given the list bl leaves the node
\* with bl if bl has exactly k non-empty names, and in every other case
\* (no name, fewer than k names, more than k names) with the first k
\* default branches and none of the names of bl.
C22_Step ==
  /\ \A bl \in NamesForOne :
        Filter(Len(nodes), "gt2", bl, "") /\ thrown' = "" =>
           BookedNode.kind = "filter" /\ Resolved(BookedNode.fBranches, 1, bl)
  /\ \A bl \in NamesForOne, name \in NewBranchNames :
        AddBranch(Len(nodes), name, "dbl", bl) /\ thrown' = "" =>
           BookedNode.kind = "branch" /\ Resolved(BookedNode.fBranches, 1, bl)
  /\ \A b \in NamesForAxis :
        Take(Len(nodes), b) /\ thrown' = "" =>
           BookedAction.kind = "take" /\ Resolved(BookedAction.fBranches, 1, <<b>>)
  /\ \A b0, b1 \in NamesForAxis :
        Histo2D(Len(nodes), H2Model, b0, b1) /\ thrown' = "" =>
           Resolved(BookedAction.fBranches, 2, <<b0, b1>>)
  /\ \A b1, b2 \in NamesForAxis :
        Histo3D(Len(nodes), H3Model, "b", b1, b2) /\ thrown' = "" =>
           Resolved(BookedAction.fBranches, 3, <<"b", b1, b2, "">>)

C22_NameResolution == [][C22_Step]_vars

\* a filter given two names, a two-dimensional histogram given one name and
\* a three-dimensional histogram given one or two names have been booked
\* with the first one, two and three of the three default branches (user
\* code gives every filter and every three-dimensional histogram a name,
\* and never the name of a default branch), next to a two-dimensional
\* histogram booked with the two names it was given
C22_Witness ==
  /\ Len(fDefaultBranches) = 3
  /\ \E i \in Filters : nodes[i].fBranches = SubSeq(fDefaultBranches, 1, 1)
  /\ \E i \in DOMAIN fBookedActions :
        /\ "ymin" \in DOMAIN fBookedActions[i].init
        /\ fBookedActions[i].fBranches \in
              {SubSeq(fDefaultBranches, 1, 2), fDefaultBranches}
  /\ \E i \in DOMAIN fBookedActions : fBookedActions[i].fBranches = <<"b", "b">>

\* -------------------------------------------------------------------- C23
\* a node of k columns given bl needs the default branches, and there are
\* fewer than k of them
TooFewDefaults(k, bl) ==
  ProvidedBranches(bl) # k /\ Len(fDefaultBranches) < k

\* the step failed with InsufficientDefaults and booked nothing
NothingBooked ==
  UNCHANGED <<nodes, fBookedFilters, fBookedBranches, fBookedActions,
              fResProxyReadiness, proxyInfo>>

\* C23 (InsufficientDefaults): a booking call that comes to resolve the
\* names of its k columns, is given a list without exactly k non-empty names
\* and finds fewer than k default branches fails with InsufficientDefaults
\* in the call itself, and books nothing.
C23_Step ==
  /\ \A bl \in NamesForOne :
        Filter(Len(nodes), "gt2", bl, "") /\ TooFewDefaults(1, bl) =>
           thrown' = "InsufficientDefaults" /\ NothingBooked
  /\ \A bl \in NamesForOne, name \in NewBranchNames :
        /\ AddBranch(Len(nodes), name, "dbl", bl)
        /\ CheckTmpBranch(name) = ""
        /\ TooFewDefaults(1, bl)
        => thrown' = "InsufficientDefaults" /\ NothingBooked
  /\ \A b \in NamesForAxis :
        Take(Len(nodes), b) /\ TooFewDefaults(1, <<b>>) =>
           thrown' = "InsufficientDefaults" /\ NothingBooked
  /\ \A b0, b1 \in NamesForAxis :
        Histo2D(Len(nodes), H2Model, b0, b1) /\ TooFewDefaults(2, <<b0, b1>>) =>
           thrown' = "InsufficientDefaults" /\ NothingBooked
  /\ \A b1, b2 \in NamesForAxis :
        /\ Histo3D(Len(nodes), H3Model, "b", b1, b2)
        /\ TooFewDefaults(3, <<"b", b1, b2, "">>)
        => thrown' = "InsufficientDefaults" /\ NothingBooked

C23_InsufficientDefaults == [][C23_Step]_vars

\* on a frame with one default branch, after a filter was booked, a call
\* (a histogram of two or three columns: no other call needs more than one
\* default branch) has failed with InsufficientDefaults
C23_Witness ==
  /\ thrown = "InsufficientDefaults"
  /\ Len(fDefaultBranches) = 1
  /\ Filters # {}

\* -------------------------------------------------------------------- C24
\* no two temporary branches of the graph have the same name, and none has
\* the name of a branch of the tree
C24_Unique ==
  /\ \A i, j \in Branches : nodes[i].fName = nodes[j].fName => i = j
  /\ \A i \in Branches : nodes[i].fName \notin PhysicalBranches

\* the name is the name of a branch of the tree or of a temporary branch
\* booked on any node of the graph
NameInUse(name) ==
  \/ name \in PhysicalBranches
  \/ \E i \in Branches : nodes[i].fName = name

C24_Step ==
  \A p \in 0..Len(nodes), name \in DefineNames :
     AddBranch(p, name, "dbl", <<"x">>) /\ NameInUse(name) =>
        thrown' = "DuplicateDerivedName" /\ NothingBooked

UnknownColumnRejected == thrown' = "UnknownColumn" /\ NothingBooked

C25_Step ==
  \A p \in 0..Len(nodes) : \A b \in ColumnNames \ KnownBranches(p) :
     /\ Filter(p, "gt2", <<b>>, "") => UnknownColumnRejected
     /\ AddBranch(p, "y", "dbl", <<b>>) /\ ~NameInUse("y") => UnknownColumnRejected
     /\ Take(p, b) => UnknownColumnRejected

\* C25 (UnknownColumn at booking): a Filter, AddBranch or action call whose
\* column list holds a name that is neither a branch of the tree nor a
\* temporary branch defined upstream of the node fails with UnknownColumn
\* in the chain-building call and books nothing.
C25_UnknownColumn == [][C25_Step]_vars

\* -------------------------------------------------------------------- C26
\* the type the inference mapping assigns to column c: that of the storage
\* descriptor of a branch of the tree, the recorded one of a temporary
\* branch, "" if the type is not one of the five supported
MappedType(c) ==
  IF c \in PhysicalBranches
  THEN (CASE TreeBranches[c] = [element |-> FALSE, type |-> "B"] -> "char"
          [] TreeBranches[c] = [element |-> FALSE, type |-> "I"] -> "int"
          [] TreeBranches[c] = [element |-> FALSE, type |-> "D"] -> "double"
          [] TreeBranches[c] = [element |-> TRUE, type |-> "vector<double>"] -> "vector<double>"
          [] TreeBranches[c] = [element |-> TRUE, type |-> "vector<float>"] -> "vector<float>"
          [] OTHER -> "")
  ELSE LET recorded == RetType((CHOOSE u \in GuessBranches : u.name = c).expression)
       IN IF recorded \in {"char", "int", "double", "vector<double>", "vector<float>"}
          THEN recorded ELSE ""

\* column c exists at the end of the chain
Defined(c) == c \in PhysicalBranches \/ \E i \in Branches : nodes[i].fName = c

\* the step failed with CannotInferType and booked nothing
CannotInferTypeRejected == thrown' = "CannotInferType" /\ NothingBooked

\* the step ended with an exception or booked an action of the given kind
ThrewOrBooked(kind) ==
  \/ thrown' # ""
  \/ Len(fBookedActions') = Len(fBookedActions) + 1 /\ BookedAction.kind = kind

C26_Step ==
  \A c \in GuessColumns :
     Defined(c) /\ MappedType(c) = "" =>
        /\ ThrewOrBooked("min") /\ Min(Len(nodes), c) => CannotInferTypeRejected
        /\ ThrewOrBooked("max") /\ Max(Len(nodes), c) => CannotInferTypeRejected
        /\ ThrewOrBooked("mean") /\ Mean(Len(nodes), c) => CannotInferTypeRejected
        /\ ThrewOrBooked("fillTO") /\ Histo1D(Len(nodes), c, 0, 1)
           => CannotInferTypeRejected

\* C26 (CannotInferType): a Min, Max, Mean or Histo1D booked without an
\* element type on a column whose type is none of char, int, double,
\* std::vector<double>, std::vector<float> fails with CannotInferType in
\* the call and books no action, be the column a branch of the tree or a
\* temporary branch.
C26_CannotInferType == [][C26_Step]_vars

\* the same for the branches of the tree alone
C26_PhysicalStep ==
  \A c \in PhysicalBranches :
     MappedType(c) = "" =>
        /\ ThrewOrBooked("min") /\ Min(Len(nodes), c) => CannotInferTypeRejected
        /\ ThrewOrBooked("max") /\ Max(Len(nodes), c) => CannotInferTypeRejected
        /\ ThrewOrBooked("mean") /\ Mean(Len(nodes), c) => CannotInferTypeRejected
        /\ ThrewOrBooked("fillTO") /\ Histo1D(Len(nodes), c, 0, 1)
           => CannotInferTypeRejected

C26_Physical == [][C26_PhysicalStep]_vars

C27_Supported ==
  \A i \in DOMAIN fBookedActions :
     LET a == fBookedActions[i]
     IN a.type # "" /\ MappedType(a.fBranches[1]) # "" =>
           a.type = MappedType(a.fBranches[1])

\* -------------------------------------------------------------------- C28
\* the X, Y and Z axes a histogram has
Axes(h) ==
  {<<h.xmin, h.xmax>>}
  \cup (IF "ymin" \in DOMAIN h THEN {<<h.ymin, h.ymax>>} ELSE {})
  \cup (IF "zmin" \in DOMAIN h THEN {<<h.zmin, h.zmax>>} ELSE {})

\* an axis of h has no limits: its minimum and maximum are both 0
LacksLimits(h) == <<0, 0>> \in Axes(h)

\* the histograms of two and three dimensions that are booked
BookedModels ==
  {fBookedActions[i].init : i \in {j \in DOMAIN fBookedActions :
                                     "ymin" \in DOMAIN fBookedActions[j].init}}

\* the step failed with HistogramNeedsAxisLimits and booked nothing
NeedsAxisLimitsRejected ==
  thrown' = "HistogramNeedsAxisLimits" /\ NothingBooked

C28_Step ==
  /\ \A x, y \in AxisLimits :
        LET model == TH2F(x[1], x[2], y[1], y[2])
        IN LacksLimits(model) /\ Histo2D(0, model, "x", "d")
              => NeedsAxisLimitsRejected
  /\ \A x, y, z \in AxisLimits :
        LET model == TH3F(x[1], x[2], y[1], y[2], z[1], z[2])
        IN LacksLimits(model) /\ Histo3D(0, model, "x", "d", "b")
              => NeedsAxisLimitsRejected

\* C28 (HistogramNeedsAxisLimits): a Histo2D or Histo3D whose model has no
\* limits on one of its axes fails in the call and books nothing; every
\* histogram of two or three dimensions that is booked has limits on all
\* its axes.
C28_NeedsAxisLimits ==
  [](\A h \in BookedModels : ~LacksLimits(h)) /\ [][C28_Step]_vars

\* the same for the X axis alone
C28_XStep ==
  /\ \A x, y \in AxisLimits :
        x = <<0, 0>> /\ Histo2D(0, TH2F(x[1], x[2], y[1], y[2]), "x", "d")
           => NeedsAxisLimitsRejected
  /\ \A x, y, z \in AxisLimits :
        x = <<0, 0>> /\ Histo3D(0, TH3F(x[1], x[2], y[1], y[2], z[1], z[2]), "x", "d", "b")
           => NeedsAxisLimitsRejected

C28_XAxis ==
  [](\A h \in BookedModels : <<h.xmin, h.xmax>> # <<0, 0>>) /\ [][C28_XStep]_vars

\* -------------------------------------------------------------------- C29
\* the Histo1D actions that are booked
BookedHisto1D ==
  {j \in DOMAIN fBookedActions :
     /\ fBookedActions[j].kind \in {"fill", "fillTO"}
     /\ "ymin" \notin DOMAIN fBookedActions[j].init}

\* C29 (histogram mode selection): a Histo1D action buffers the values of
\* the slots (FillOperation) exactly when the minimum and the maximum asked
\* for its axis are equal, whatever their value, and fills the histograms of
\* the slots (FillTOOperation) when they differ.
C29_ModeSelection ==
  \A j \in BookedHisto1D :
     LET a == fBookedActions[j]
     IN (a.kind = "fill") <=> (a.init.xmin = a.init.xmax)

\* the same with buffering exactly when both limits are 0
C29_ZeroLimits ==
  \A j \in BookedHisto1D :
     LET a == fBookedActions[j]
     IN (a.kind = "fill") <=> (a.init.xmin = 0 /\ a.init.xmax = 0)

\* -------------------------------------------------------------------- C30
\* the temporary branches whose expression the value of column c is made of
RECURSIVE BranchesRead(_)
BranchesRead(c) ==
  IF c \in DOMAIN fBookedBranches
  THEN {fBookedBranches[c]} \cup BranchesRead(nodes[fBookedBranches[c]].fBranches[1])
  ELSE {}

\* the filters and temporary branches whose callables the callable of the
\* action of proxy r waits for: the filters on its chain and the temporary
\* branches it reads
NeededBy(r) ==
  UNION {Upstream(fBookedActions[i].fPrevData)
         \cup (IF fBookedActions[i].fBranches = <<>> THEN {}
               ELSE BranchesRead(fBookedActions[i].fBranches[1]))
         : i \in {k \in DOMAIN fBookedActions : fBookedActions[k].res = r}}

\* the expression of a temporary branch is called only on the entry the
\* slot is processing, and only if the entry passes every filter on the
\* chain down to the node the branch was defined on
C30_OnlyPassing ==
  \A j \in DOMAIN order :
     order[j][1] = "branch" =>
        /\ <<order[j][3], order[j][4]>> \in visited
        /\ PassesAll(nodes[order[j][2]].fPrevData, order[j][4])

\* a predicate is called before the expression of every temporary branch
\* defined downstream of its filter, and the callable of an action after
\* the predicates of its chain and the expressions of the branches it reads
C30_Ordered ==
  \A i, j \in DOMAIN order :
     /\ ( /\ order[j][1] = "branch"
          /\ order[i][1] = "filter"
          /\ order[i][2] \in Upstream(nodes[order[j][2]].fPrevData) ) => i < j
     /\ ( /\ order[j][1] = "action"
          /\ order[i][1] \in {"filter", "branch"}
          /\ order[i][2] \in NeededBy(order[j][2]) ) => i < j

\* C30 (temporary branches see passing entries only): in every iteration of
\* every run, on graphs with any branching, the expression of a temporary
\* branch is called only for a (slot, entry) that passes all the filters
\* upstream of the node it was defined on, and within the iteration the
\* predicates of those filters come first, then the expressions, then the
\* callable of the action that reads them.
C30_DefineAfterFilters == C30_OnlyPassing /\ C30_Ordered

\* an action reads a temporary branch defined downstream of a filter: on
\* the entry just processed the predicate was called and rejected it, and
\* the expression was not called
C30_Witness ==
  \E b \in Branches, p \in visited :
     /\ \E id \in Upstream(nodes[b].fPrevData) :
           /\ ~Holds(id, p[2])
           /\ Times(calls, <<"filter", id, p[1], p[2]>>) = 1
     /\ Times(calls, <<"branch", b, p[1], p[2]>>) = 0
     /\ \E i \in DOMAIN fBookedActions :
           /\ fBookedActions[i].fBranches # <<>>
           /\ b \in BranchesRead(fBookedActions[i].fBranches[1])

\* -------------------------------------------------------------------- C31
\* Run is about to process its first entry
RunBegins == pc = "loop" /\ nextEntry = 0

\* no slot of node id remembers an entry
Unevaluated(id) ==
  \A s \in DOMAIN nodes[id].fLastCheckedEntry : nodes[id].fLastCheckedEntry[s] = -1

\* C31 (fresh per-slot state per run): when a run begins, the first or a
\* later one, no filter and no temporary branch remembers an entry on any
\* slot, so that the first entry a slot processes is evaluated in that run.
C31_FreshPerRun == RunBegins => \A id \in NodeIds : Unevaluated(id)

\* the same for the filters alone
C31_FreshFilters == RunBegins => \A id \in Filters : Unevaluated(id)

\* -------------------------------------------------------------------- C32
\* the nodes on the chain from the root to node p, p included
RECURSIVE Chain(_)
Chain(p) == IF p = 0 THEN {} ELSE {p} \cup Chain(nodes[p].fPrevData)

\* the names of the temporary branches visible at node p: those visible at
\* its parent, and its own if it is a temporary branch
RECURSIVE Visible(_)
Visible(p) ==
  IF p = 0 THEN {}
  ELSE Visible(nodes[p].fPrevData)
       \cup (IF nodes[p].kind = "branch" THEN {nodes[p].fName} ELSE {})

\* what a consumer with the temporary branches tmpbl reads column `branch`
\* from: the node of a temporary branch, or 0 for the reader of the tree
ReadFrom(tmpbl, branch) ==
  IF IsTmpBranch(tmpbl, branch) THEN fBookedBranches[branch] ELSE 0

\* a consumer at node p with the temporary branches tmpbl and the columns
\* bl knows the temporary branches visible at p, reads a visible name from
\* the temporary branch of that name on its chain and any other name from
\* the tree
ResolvesOnChain(p, tmpbl, bl) ==
  /\ Range(tmpbl) = Visible(p)
  /\ \A j \in DOMAIN bl :
        LET b == ReadFrom(tmpbl, bl[j])
        IN IF bl[j] \in Visible(p)
           THEN b \in Chain(p) /\ nodes[b].kind = "branch" /\ nodes[b].fName = bl[j]
           ELSE b = 0

\* C32 (column value resolution and visibility): the temporary branches a
\* node knows are those of its parent plus its own name if it is a temporary
\* branch; a filter, temporary branch or action reads a column from the
\* temporary branch of that name exactly when the name is visible at it, and
\* from the tree otherwise, so that a temporary branch defined on one chain
\* never serves a node of another chain.
C32_Visibility ==
  /\ \A id \in NodeIds :
        ResolvesOnChain(id, nodes[id].fTmpBranches, nodes[id].fBranches)
  /\ \A i \in DOMAIN fBookedActions :
        ResolvesOnChain(fBookedActions[i].fPrevData, fBookedActions[i].fTmpBranches,
                        fBookedActions[i].fBranches)

\* the temporary branch "y" hangs on one node, a filter on "y" downstream
\* of it reads the branch, and a filter on "y" on another chain reads the
\* tree
C32_Witness ==
  \E b \in Branches, f \in Filters, g \in Filters :
     /\ nodes[b].fName = "y"
     /\ nodes[f].fBranches = <<"y">> /\ b \in Chain(f)
     /\ ReadFrom(nodes[f].fTmpBranches, "y") = b
     /\ nodes[g].fBranches = <<"y">> /\ b \notin Chain(g)
     /\ ReadFrom(nodes[g].fTmpBranches, "y") = 0

\* -------------------------------------------------------------------- C33
\* the values the action behind proxy h has processed: x of the rows that
\* pass the filters upstream of it
Processed(h) == PassingValues(proxyInfo[h].fPrevData, proxyInfo[h].fBranches[1])

\* C33 (Max and Min correctness): once merged, the result of a Max over a
\* non-empty set of processed values is the largest of them, also when all
\* of them are negative or zero, and the result of a Min is the smallest.
C33_MaxMin ==
  \A h \in Proxies :
     proxyInfo[h].merged /\ Processed(h) # {} =>
        /\ proxyInfo[h].kind = "max" => fObjPtr[h] = Greatest(Processed(h))
        /\ proxyInfo[h].kind = "min" => fObjPtr[h] = Least(Processed(h))

\* the half of it about Min
C33_Min ==
  \A h \in Proxies :
     proxyInfo[h].merged /\ Processed(h) # {} /\ proxyInfo[h].kind = "min" =>
        fObjPtr[h] = Least(Processed(h))

\* Max is the largest processed value when one of them is at least the
\* smallest positive double, and that double otherwise
C33_MaxPositive ==
  \A h \in Proxies :
     proxyInfo[h].merged /\ Processed(h) # {} /\ proxyInfo[h].kind = "max" =>
        fObjPtr[h] = Greatest(Processed(h) \cup {DoubleMin})

\* -------------------------------------------------------------------- C34
\* the step is what a Get on proxy h does: a run is triggered (it starts, or
\* fails with EngineGone when the engine is gone) when the proxy is not
\* ready, and nothing runs when it is ready
AsGet(h) ==
  IF fReadiness[h]
  THEN thrown' = "" /\ UNCHANGED <<pc, nRuns, nodes, nextEntry, fReadiness, fObjPtr>>
  ELSE IF pc = "gone"
       THEN thrown' = "EngineGone" /\ UNCHANGED <<pc, nRuns, fReadiness, fObjPtr>>
       ELSE pc' = "loop" /\ nRuns' = nRuns + 1 /\ nextEntry' = 0 /\ getting' = h

C34_Step ==
  \A h \in Proxies : begin(h) \/ end(h) \/ Get(h) => AsGet(h)

\* C34 (iteration entry points): begin() and end() on a proxy of a
\* collection that is not ready trigger the run as Get does, or fail with
\* EngineGone if the engine is gone; on a ready proxy they return without
\* running the event loop.
C34_IterationTriggers == [][C34_Step]_vars

\* begin() was called on a collection that was not ready and the event loop
\* it triggered is running
C34_Witness ==
  /\ pc = "loop"
  /\ iterated # <<>>
  /\ iterated.point = "begin"
  /\ ~iterated.ready
  /\ getting = iterated.h

\* -------------------------------------------------------------------- C35
\* the temporary branches GetValue of branch node b asks for their value:
\* the inputs GetBranchValue resolves to a temporary branch
DependsOn(b) ==
  {fBookedBranches[c] : c \in {c \in Range(nodes[b].fBranches) :
                                  IsTmpBranch(nodes[b].fTmpBranches, c)}}

\* the branch nodes reached from those of S in at most n steps
RECURSIVE ReachedFrom(_, _)
ReachedFrom(S, n) ==
  IF n = 0 THEN S
  ELSE ReachedFrom(S \cup UNION {DependsOn(b) : b \in S}, n - 1)

\* C35 (evaluation of temporary branches terminates): no booked temporary
\* branch depends on itself, directly (its own name among its inputs) or
\* through other temporary branches.
C35_Acyclic ==
  \A b \in Branches : b \notin ReachedFrom(DependsOn(b), Len(nodes))

\* what the code keeps: a temporary branch depends on itself or on
\* temporary branches booked before it
C35_SelfOrEarlier == \A b \in Branches : \A d \in DependsOn(b) : d <= b

\* -------------------------------------------------------------------- C36
\* the errors a chain-building call ends with
BookingErrors == {"InsufficientDefaults", "DuplicateDerivedName", "CannotInferType",
                  "HistogramNeedsAxisLimits", "UnknownColumn", "EngineGone"}

\* the step is a chain-building call that failed
FailedCall == thrown' \in BookingErrors /\ ChainCall

\* C36 (a failed booking has no effect): a chain-building call that ends
\* with a booking error or with EngineGone leaves the booked filters,
\* temporary branches and actions and the registered readiness flags as they
\* were, makes no result proxy and starts no run.
C36_Step ==
  FailedCall =>
     UNCHANGED <<nodes, fBookedFilters, fBookedBranches, fBookedActions,
                 fResProxyReadiness, fReadiness, fObjPtr, pc, nRuns, nextEntry,
                 calls, fHasRunAtLeastOnce>>

C36_FailedBooking == [][C36_Step]_vars

\* filters or temporary branches and actions were booked, the TDataFrame
\* went out of scope, and a chain-building call (no Get was ever called)
\* failed with EngineGone
C36_Witness ==
  /\ pc = "gone"
  /\ thrown = "EngineGone"
  /\ getting = 0
  /\ ~demanded
  /\ fBookedActions # <<>>
  /\ nodes # <<>>

\* -------------------------------------------------------------------- C37
\* the entry numbers the sink committed clusters at, in order
RECURSIVE Clusters(_)
Clusters(sink) ==
  IF sink = <<>> THEN <<>>
  ELSE (IF Head(sink).op = "CommitCluster" THEN <<Head(sink).arg>> ELSE <<>>)
       \o Clusters(Tail(sink))

\* every cluster the sink committed holds at least one entry
NoEmptyCluster ==
  LET c == Clusters(fSink)
  IN \A i \in DOMAIN c : c[i] > (IF i = 1 THEN 0 ELSE c[i - 1])

\* what a call of CommitCluster by user code does
C37_Step ==
  api' = Append(api, "CommitCluster") =>
     IF writer.fNEntries = writer.fLastCommitted
     THEN UNCHANGED <<writer, fSink>>
     ELSE /\ fSink' = fSink \o FlushAndCommit(writer.fModel)
                            \o <<[op |-> "CommitCluster", arg |-> writer.fNEntries]>>
          /\ writer' = [writer EXCEPT !.fLastCommitted = writer.fNEntries]

\* C37 (RNTupleWriter::CommitCluster): fLastCommitted never exceeds
\* fNEntries; CommitCluster does nothing when they are equal, and otherwise
\* flushes and commits every field, commits the cluster at fNEntries in the
\* sink and sets fLastCommitted to fNEntries; so the second of two calls in a
\* row commits nothing and no cluster the sink commits is empty.
C37_CommitCluster ==
  /\ [](writer.fLastCommitted <= writer.fNEntries /\ NoEmptyCluster)
  /\ [][C37_Step]_vars

\* one entry was written and CommitCluster was called twice: one cluster
C37_Witness ==
  /\ api = <<"Fill", "CommitCluster", "CommitCluster">>
  /\ Clusters(fSink) = <<1>>
  /\ writer.fLastCommitted = 1

\* -------------------------------------------------------------------- C38
\* the positions of the sink's calls of the given kind
SinkCalls(op) == {i \in DOMAIN fSink : fSink[i].op = op}

\* the entries the sink has committed in clusters
Committed ==
  LET c == Clusters(fSink) IN IF c = <<>> THEN 0 ELSE c[Len(c)]

\* the dataset is committed when the writer is destroyed and not before,
\* once, as the last call on the sink, with every entry in a cluster
DatasetCommittedLast ==
  /\ writer.state = "open" => SinkCalls("CommitDataset") = {}
  /\ writer.state = "destroyed" =>
        /\ SinkCalls("CommitDataset") = {Len(fSink)}
        /\ Committed = writer.fNEntries
        /\ writer.fLastCommitted = writer.fNEntries

\* what the destructor does: the entries not yet committed go into a last
\* cluster, then the dataset is committed
C38_Step ==
  writer.state = "open" /\ writer'.state = "destroyed" =>
     LET last == IF writer.fLastCommitted < writer.fNEntries
                 THEN FlushAndCommit(writer.fModel)
                      \o <<[op |-> "CommitCluster", arg |-> writer.fNEntries]>>
                 ELSE <<>>
     IN fSink' = fSink \o last \o <<[op |-> "CommitDataset", arg |-> ""]>>

\* C38 (shutdown order of RNTupleWriter): the destructor commits the entries
\* not yet committed as a last cluster and then commits the dataset, once;
\* CommitDataset is never called while entries are uncommitted and nothing
\* is committed after it.
C38_ShutdownOrder == []DatasetCommittedLast /\ [][C38_Step]_vars

\* three entries were written, two of them committed by Fill, and the
\* destructor committed the third before the dataset
C38_Witness ==
  /\ writer.state = "destroyed"
  /\ api = <<"Fill", "Fill", "Fill", "~RNTupleWriter">>
  /\ Clusters(fSink) = <<2, 3>>
  /\ fSink[Len(fSink)].op = "CommitDataset"

\* -------------------------------------------------------------------- C39
\* the reader was opened without a model
OpenedWithoutModel == UserModel \notin Range(reader.fSource.connected)

\* the model of reader r was connected once, if r has one, and no other was
ConnectedOnce(r) ==
  r.fSource.connected = r.fModel

\* once loaded, the model of the reader stays the same; a Show of the
\* current model before it is loaded prints {} and leaves the reader as it
\* is; the display reader, once cloned, stays the same reader
C39_Step ==
  /\ reader.fModel # <<>> => reader'.fModel = reader.fModel
  /\ reader.fDisplayReader # <<>> =>
        /\ reader'.fDisplayReader # <<>>
        /\ reader'.fSource.cloned = reader.fSource.cloned
  /\ (\E index \in Indices : api' = Append(api, <<"Show", index, "kCurrentModelJSON">>))
        /\ reader.fModel = <<>>
        => output' = EmptyJSON /\ reader' = reader
  /\ reader'.fModel # reader.fModel => api' = Append(api, <<"GetModel">>)

\* C39 (lazy model of RNTupleReader): for a reader opened without a model the
\* model is generated and connected to the source at most once, by the first
\* GetModel, and later calls return that model; Show of the current model
\* before the model is loaded prints {} without generating the model or
\* loading an entry; the display reader is cloned at most once.
C39_LazyModel ==
  /\ [](OpenedWithoutModel =>
          /\ ConnectedOnce(reader)
          /\ reader.fSource.cloned <= 1
          /\ reader.fModel = <<>> => reader.fSource.loaded = <<>>)
  /\ [][OpenedWithoutModel => C39_Step]_vars

\* a reader opened without a model printed {} for the current model, then
\* GetModel was called twice and the complete entry shown twice: one model
\* connected, one display reader
C39_Witness ==
  /\ api = <<<<"Show", 0, "kCurrentModelJSON">>, <<"GetModel">>, <<"GetModel">>,
             <<"Show", 0, "kCompleteJSON">>, <<"Show", 1, "kCompleteJSON">>>>
  /\ Len(reader.fSource.connected) = 1
  /\ reader.fSource.cloned = 1
  /\ reader.fDisplayReader[1].fSource.loaded = <<0, 1>>
  /\ reader.fSource.loaded = <<>>

====
